---- MODULE Spec2Model ----
(***************************************************************************)
(* Decentracert: the issuer registry (IssuerRegistry.sol), the soulbound   *)
(* certificate registry (SoulboundNFT.sol) and the admin part of the proof *)
(* registry (ZKVerifier.sol), as one state machine.  A transaction is one  *)
(* atomic step; a reverted transaction changes nothing but `last`, the     *)
(* record of the most recent call and its outcome.                         *)
(***************************************************************************)
EXTENDS Integers, Sequences, FiniteSets

(***************************************************************************)
(* Bounds of the model.                                                    *)
(***************************************************************************)
\* cap on _tokenIdCounter: no mint is attempted past it
MaxTokens == 2
\* longest Merkle proof a caller submits
MaxProofLen == 2
\* cap on block.timestamp
MaxTime == 1
\* cap on _circuitIdCounter: no circuit is registered past it
MaxCircuits == 2
\* cap on the circuits registered in the specifications that also create
\* proofs or manage the issuer registry
MaxCircuitsProofSpecs == 1
\* cap on _proofIdCounter: no proof is created past it
MaxProofs == 2
\* the largest unsigned integer (type(uint256).max, scaled down): an
\* addition that exceeds it reverts
MaxUint == 2

(***************************************************************************)
(* Identities.  address(0) is ZERO; it is never msg.sender.                *)
(***************************************************************************)
ZERO == "0x0"
Addr == {"owner", "alice", "bob"}
AddrOrZero == Addr \cup {ZERO}
\* the account that deploys the three contracts (Ownable(msg.sender))
Deployer == "owner"

\* enum IssuerTier { NONE, MANUAL, T2, T1 }
TierNONE == 0
TierMANUAL == 1
TierT2 == 2
TierT1 == 3

(***************************************************************************)
(* Strings are sequences of ASCII codes.                                   *)
(***************************************************************************)
\* "A", "a", "b"
Domains == {<<65>>, <<97>>, <<98>>}
\* "U", "u"
Urls == {<<85>>, <<117>>}
\* "n"
Names == {<<110>>}
\* "v"
VData == {<<118>>}
\* "Manual verification"
ManualSentinel ==
  <<77, 97, 110, 117, 97, 108, 32, 118, 101, 114, 105, 102, 105, 99, 97, 116, 105, 111, 110>>
EmptyString == << >>
\* base URIs: "i" (for "ipfs://test/") and "h" (for "https://example.com/")
BaseURIs == {<<105>>, <<104>>}

\* IssuerRegistry._toLower: ASCII upper-case letters are shifted by 32
LowerChar(ch) == IF ch >= 65 /\ ch <= 90 THEN ch + 32 ELSE ch
ToLower(str) == [i \in 1..Len(str) |-> LowerChar(str[i])]
\* a variant of _hash that hashes the bytes as they are
HashCaseSensitive(str) == str
\* IssuerRegistry._hash: keccak256 of the lower-cased bytes (keccak256 is
\* collision-free here: the hash of a string is the string itself)
Hash(str) == ToLower(str)

\* "U", "u" and a second URL, "w"
SocialUrls == Urls \cup {<<119>>}
StrUniverse == Domains \cup SocialUrls \cup VData \cup {ManualSentinel, EmptyString}
HashKeys == {Hash(s) : s \in StrUniverse}

\* Strings.toString(uint256): the decimal digits
RECURSIVE toString(_)
toString(n) == IF n < 10 THEN <<48 + n>> ELSE toString(n \div 10) \o <<48 + (n % 10)>>

(***************************************************************************)
(* bytes32 values are naturals; 0 is bytes32(0).                           *)
(***************************************************************************)
\* keccak256(abi.encodePacked(address)): one value per address
AddrCode(a) == CASE a = ZERO -> 1 [] a = "owner" -> 2 [] a = "alice" -> 3 [] a = "bob" -> 4
LeafOf(a) == AddrCode(a)
\* values of inner nodes start above every leaf value
NodeBase == 5
\* MerkleProof commutative keccak256: the pair is sorted, then hashed; the
\* hash is collision-free (Cantor pairing of the sorted pair)
HashPair(a, b) ==
  LET lo == IF a < b THEN a ELSE b
      hi == IF a < b THEN b ELSE a
  IN NodeBase + ((lo + hi) * (lo + hi + 1)) \div 2 + hi
\* MerkleProof.processProof
RECURSIVE ProcessProof(_, _)
ProcessProof(proof, computed) ==
  IF proof = << >> THEN computed
  ELSE ProcessProof(Tail(proof), HashPair(computed, Head(proof)))
\* MerkleProof.verify
MerkleVerify(proof, root, leaf) == ProcessProof(proof, leaf) = root

\* whitelists the owner may commit to: [alice, bob], [bob] (a single leaf is
\* its own root) and [owner, alice, bob] (the odd leaf is promoted)
RootAB == HashPair(LeafOf("alice"), LeafOf("bob"))
RootB == LeafOf("bob")
RootOAB == HashPair(HashPair(LeafOf("owner"), LeafOf("alice")), LeafOf("bob"))
Roots == {RootAB, RootB, RootOAB}
\* what callers put in a proof
ProofElems == {LeafOf("alice"), LeafOf("bob")}
Proofs == UNION {[1..n -> ProofElems] : n \in 0..MaxProofLen}
\* the constructor arguments of the deployment of the test suite
InitialRoot == RootAB
InitialBaseURI == <<105>>

IdArgs == 0..MaxTokens

\* arguments of the proof registry: "c", "d", a null and a non-null verifier
\* contract, circuit and proof ids (0 and ids never allocated included), raw
\* proof bytes, public inputs and validity periods
CircuitNames == {<<99>>}
Descriptions == {<<100>>}
VerifierContracts == {ZERO, "alice"}
CircuitIdArgs == 0..MaxCircuits
ProofIdArgs == 0..MaxProofs
ProofDatas == {<<1>>}
PublicInputs == {<<2>>}
ValidityPeriods == 0..MaxUint
\* keccak256(abi.encodePacked(proofData, publicInputs)): encodePacked
\* concatenates, keccak256 is collision-free (the hash of the bytes is the
\* bytes); bytes32(0) is the empty sequence
ProofHashOf(proofData, publicInputs) == proofData \o publicInputs

VARIABLES
  \* block.timestamp
  now,
  \* IssuerRegistry
  issuers, domainToIssuer, socialMediaToIssuer, irAdmins,
  \* SoulboundNFT (with the ERC721 _owners and _balances it inherits)
  tokenIdCounter, owners, balances, certificates, merkleRoot, baseTokenURI,
  hasCertificate,
  \* ZKVerifier
  zkAdmins, circuitIdCounter, proofIdCounter, circuits, proofs, ownerProofs,
  \* the most recent call and its outcome
  last

irVars == <<issuers, domainToIssuer, socialMediaToIssuer, irAdmins>>
nftVars == <<tokenIdCounter, owners, balances, certificates, merkleRoot, baseTokenURI,
             hasCertificate>>
zkProofVars == <<circuitIdCounter, proofIdCounter, circuits, proofs, ownerProofs>>
zkVars == <<zkAdmins, zkProofVars>>
vars == <<now, irVars, nftVars, zkVars, last>>

\* the zero value of struct IssuerData
ZeroIssuer ==
  [issuerAddress |-> ZERO, tier |-> TierNONE, name |-> EmptyString,
   verificationData |-> EmptyString, verifiedAt |-> 0, isActive |-> FALSE]
\* the zero value of struct Certificate
ZeroCertificate ==
  [issuer |-> ZERO, issuerLevel |-> 0, metadataURI |-> EmptyString, issuedAt |-> 0,
   recipient |-> ZERO]

\* the zero value of struct VerifierCircuit
ZeroCircuit ==
  [id |-> 0, name |-> EmptyString, description |-> EmptyString, verifierContract |-> ZERO,
   isActive |-> FALSE]
\* the zero value of struct ProofData
ZeroProof ==
  [id |-> 0, owner |-> ZERO, circuitId |-> 0, proofHash |-> EmptyString, createdAt |-> 0,
   expiresAt |-> 0, isRevoked |-> FALSE]

\* the events the functions of IssuerRegistry emit before they return
IrEmits(op) ==
  CASE op \in {"verifyIssuerT1", "verifyIssuerT2", "manualVerifyIssuer"} -> {"IssuerVerified"}
    [] op = "upgradeToT1" -> {"IssuerUpgraded"}
    [] op \in {"deactivateIssuer", "reactivateIssuer"} -> {"IssuerStatusChanged"}
    [] op = "ir.addAdmin" -> {"AdminAdded"}
    [] op = "ir.removeAdmin" -> {"AdminRemoved"}
    [] OTHER -> {}
\* the events the functions of SoulboundNFT emit: their own, and the Transfer
\* of ERC721._update under a mint, a burn or a transfer
NftEmits(op) ==
  CASE op \in {"mintCertificate", "mint"} -> {"Transfer", "CertificateMinted"}
    [] op \in {"burn", "transferFrom", "safeTransferFrom"} -> {"Transfer"}
    [] op = "setBaseURI" -> {"BaseURIUpdated"}
    [] op = "setMerkleRoot" -> {"MerkleRootUpdated"}
    [] OTHER -> {}
\* the events the functions of ZKVerifier emit: addAdmin, removeAdmin,
\* deactivateCircuit and reactivateCircuit have no emit statement
ZkEmits(op) ==
  CASE op = "registerCircuit" -> {"CircuitRegistered"}
    [] op = "createProof" -> {"ProofCreated"}
    [] op = "revokeProof" -> {"ProofRevoked"}
    [] OTHER -> {}
\* a variant of the log that a reverted call keeps
LogKept(op, err) == IrEmits(op) \cup NftEmits(op) \cup ZkEmits(op)
\* the log of a transaction: a revert discards the events emitted before it
Log(op, err) == IF err = "" THEN IrEmits(op) \cup NftEmits(op) \cup ZkEmits(op) ELSE {}
\* the record of a call: who called what, the revert ("" when it succeeded),
\* the value returned and the events emitted
Call(op, sender, err, ret) ==
  [op |-> op, sender |-> sender, err |-> err, ret |-> ret, events |-> Log(op, err)]

Init ==
  /\ now = 0
  /\ issuers = [a \in Addr |-> ZeroIssuer]
  /\ domainToIssuer = [h \in HashKeys |-> ZERO]
  /\ socialMediaToIssuer = [h \in HashKeys |-> ZERO]
  /\ irAdmins = [a \in Addr |-> a = Deployer]
  /\ tokenIdCounter = 0
  /\ owners = [i \in IdArgs |-> ZERO]
  /\ balances = [a \in Addr |-> 0]
  /\ certificates = [i \in IdArgs |-> ZeroCertificate]
  /\ merkleRoot = InitialRoot
  /\ baseTokenURI = InitialBaseURI
  /\ hasCertificate = [a \in AddrOrZero |-> FALSE]
  /\ zkAdmins = [a \in Addr |-> a = Deployer]
  /\ circuitIdCounter = 0
  /\ proofIdCounter = 0
  /\ circuits = [i \in CircuitIdArgs |-> ZeroCircuit]
  /\ proofs = [i \in ProofIdArgs |-> ZeroProof]
  /\ ownerProofs = [a \in Addr |-> << >>]
  /\ last = Call("deploy", Deployer, "", 0)

(***************************************************************************)
(* Ownable: each contract's owner is its deployer.                         *)
(***************************************************************************)
irOwner == Deployer
nftOwner == Deployer
zkOwner == Deployer
\* a variant of onlyOwner that also lets the admins of the issuer registry in
OnlyOwnerOrAdminErr(sender, theOwner) ==
  IF sender # theOwner /\ ~irAdmins[sender] THEN "OwnableUnauthorizedAccount" ELSE ""
\* Ownable.onlyOwner of the three contracts
OnlyOwnerErr(sender, theOwner) ==
  IF sender # theOwner THEN "OwnableUnauthorizedAccount" ELSE ""

(***************************************************************************)
(* IssuerRegistry                                                          *)
(***************************************************************************)
\* a variant of onlyAdmin that lets the owner through
OnlyAdminErrOwnerExempt(sender) ==
  IF ~(irAdmins[sender] \/ sender = irOwner) THEN "NotAdmin" ELSE ""
\* modifier onlyAdmin
OnlyAdminErr(sender) == IF ~irAdmins[sender] THEN "NotAdmin" ELSE ""

\* a variant of isVerifiedIssuer that ignores isActive
isVerifiedIssuerAnyStatus(a) == issuers[a].tier # TierNONE
isVerifiedIssuer(a) == issuers[a].tier # TierNONE /\ issuers[a].isActive
getIssuerTier(a) == issuers[a].tier
getIssuerData(a) == issuers[a]

IrAddAdmin(sender, admin) ==
  LET err == OnlyOwnerErr(sender, irOwner) IN
  /\ irAdmins' = IF err = "" THEN [irAdmins EXCEPT ![admin] = TRUE] ELSE irAdmins
  /\ last' = Call("ir.addAdmin", sender, err, 0)
  /\ UNCHANGED <<now, issuers, domainToIssuer, socialMediaToIssuer, nftVars, zkVars>>

IrRemoveAdmin(sender, admin) ==
  LET err == OnlyOwnerErr(sender, irOwner) IN
  /\ irAdmins' = IF err = "" THEN [irAdmins EXCEPT ![admin] = FALSE] ELSE irAdmins
  /\ last' = Call("ir.removeAdmin", sender, err, 0)
  /\ UNCHANGED <<now, issuers, domainToIssuer, socialMediaToIssuer, nftVars, zkVars>>

VerifyIssuerT1Err(domain) ==
  IF domainToIssuer[Hash(domain)] # ZERO THEN "DomainAlreadyRegistered" ELSE ""
VerifyIssuerT1(sender, issuerName, domain, verificationData) ==
  LET err == VerifyIssuerT1Err(domain) IN
  /\ IF err = ""
     THEN /\ issuers' = [issuers EXCEPT ![sender] =
                 [issuerAddress |-> sender, tier |-> TierT1, name |-> issuerName,
                  verificationData |-> verificationData, verifiedAt |-> now,
                  isActive |-> TRUE]]
          /\ domainToIssuer' = [domainToIssuer EXCEPT ![Hash(domain)] = sender]
     ELSE UNCHANGED <<issuers, domainToIssuer>>
  /\ last' = Call("verifyIssuerT1", sender, err, 0)
  /\ UNCHANGED <<now, socialMediaToIssuer, irAdmins, nftVars, zkVars>>

VerifyIssuerT2Err(socialMediaUrl) ==
  IF socialMediaToIssuer[Hash(socialMediaUrl)] # ZERO THEN "SocialAlreadyRegistered" ELSE ""
\* a variant of verifyIssuerT2 that binds the URL as given, not lower-cased
VerifyIssuerT2BindRaw(sender, issuerName, socialMediaUrl) ==
  LET err == VerifyIssuerT2Err(socialMediaUrl) IN
  /\ IF err = ""
     THEN /\ issuers' = [issuers EXCEPT ![sender] =
                 [issuerAddress |-> sender, tier |-> TierT2, name |-> issuerName,
                  verificationData |-> socialMediaUrl, verifiedAt |-> now,
                  isActive |-> TRUE]]
          /\ socialMediaToIssuer' =
                 IF socialMediaUrl \in DOMAIN socialMediaToIssuer
                 THEN [socialMediaToIssuer EXCEPT ![socialMediaUrl] = sender]
                 ELSE socialMediaToIssuer
     ELSE UNCHANGED <<issuers, socialMediaToIssuer>>
  /\ last' = Call("verifyIssuerT2", sender, err, 0)
  /\ UNCHANGED <<now, domainToIssuer, irAdmins, nftVars, zkVars>>
\* a variant of verifyIssuerT2 that releases the URL a T2 caller held
VerifyIssuerT2Releasing(sender, issuerName, socialMediaUrl) ==
  LET err == VerifyIssuerT2Err(socialMediaUrl)
      released == IF issuers[sender].tier = TierT2
                  THEN [socialMediaToIssuer EXCEPT
                          ![Hash(issuers[sender].verificationData)] = ZERO]
                  ELSE socialMediaToIssuer
  IN
  /\ IF err = ""
     THEN /\ issuers' = [issuers EXCEPT ![sender] =
                 [issuerAddress |-> sender, tier |-> TierT2, name |-> issuerName,
                  verificationData |-> socialMediaUrl, verifiedAt |-> now,
                  isActive |-> TRUE]]
          /\ socialMediaToIssuer' = [released EXCEPT ![Hash(socialMediaUrl)] = sender]
     ELSE UNCHANGED <<issuers, socialMediaToIssuer>>
  /\ last' = Call("verifyIssuerT2", sender, err, 0)
  /\ UNCHANGED <<now, domainToIssuer, irAdmins, nftVars, zkVars>>
VerifyIssuerT2(sender, issuerName, socialMediaUrl) ==
  LET err == VerifyIssuerT2Err(socialMediaUrl) IN
  /\ IF err = ""
     THEN /\ issuers' = [issuers EXCEPT ![sender] =
                 [issuerAddress |-> sender, tier |-> TierT2, name |-> issuerName,
                  verificationData |-> socialMediaUrl, verifiedAt |-> now,
                  isActive |-> TRUE]]
          /\ socialMediaToIssuer' =
                 [socialMediaToIssuer EXCEPT ![Hash(socialMediaUrl)] = sender]
     ELSE UNCHANGED <<issuers, socialMediaToIssuer>>
  /\ last' = Call("verifyIssuerT2", sender, err, 0)
  /\ UNCHANGED <<now, domainToIssuer, irAdmins, nftVars, zkVars>>

\* a variant of manualVerifyIssuer that leaves a T1 or T2 record alone
ManualVerifyIssuerKeepHigher(sender, issuerAddress, issuerName) ==
  LET err == OnlyAdminErr(sender) IN
  /\ issuers' = IF err = "" /\ issuers[issuerAddress].tier \notin {TierT1, TierT2}
                THEN [issuers EXCEPT ![issuerAddress] =
                        [issuerAddress |-> issuerAddress, tier |-> TierMANUAL,
                         name |-> issuerName, verificationData |-> ManualSentinel,
                         verifiedAt |-> now, isActive |-> TRUE]]
                ELSE issuers
  /\ last' = Call("manualVerifyIssuer", sender, err, 0)
  /\ UNCHANGED <<now, domainToIssuer, socialMediaToIssuer, irAdmins, nftVars, zkVars>>
ManualVerifyIssuer(sender, issuerAddress, issuerName) ==
  LET err == OnlyAdminErr(sender) IN
  /\ issuers' = IF err = ""
                THEN [issuers EXCEPT ![issuerAddress] =
                        [issuerAddress |-> issuerAddress, tier |-> TierMANUAL,
                         name |-> issuerName, verificationData |-> ManualSentinel,
                         verifiedAt |-> now, isActive |-> TRUE]]
                ELSE issuers
  /\ last' = Call("manualVerifyIssuer", sender, err, 0)
  /\ UNCHANGED <<now, domainToIssuer, socialMediaToIssuer, irAdmins, nftVars, zkVars>>

\* a variant of upgradeToT1's requires that admits every registered issuer
UpgradeToT1ErrAnyRegistered(sender, domain) ==
  IF issuers[sender].tier = TierNONE THEN "NotT2Issuer"
  ELSE IF domainToIssuer[Hash(domain)] # ZERO THEN "DomainAlreadyRegistered"
  ELSE ""
\* a variant of upgradeToT1 that keeps the social media claim
UpgradeToT1KeepSocial(sender, domain, verificationData) ==
  LET err == IF issuers[sender].tier # TierT2 THEN "NotT2Issuer"
             ELSE IF domainToIssuer[Hash(domain)] # ZERO THEN "DomainAlreadyRegistered"
             ELSE ""
  IN
  /\ IF err = ""
     THEN /\ issuers' = [issuers EXCEPT ![sender].tier = TierT1,
                                        ![sender].verificationData = verificationData,
                                        ![sender].verifiedAt = now]
          /\ domainToIssuer' = [domainToIssuer EXCEPT ![Hash(domain)] = sender]
          /\ UNCHANGED socialMediaToIssuer
     ELSE UNCHANGED <<issuers, domainToIssuer, socialMediaToIssuer>>
  /\ last' = Call("upgradeToT1", sender, err, 0)
  /\ UNCHANGED <<now, irAdmins, nftVars, zkVars>>
UpgradeToT1Err(sender, domain) ==
  IF issuers[sender].tier # TierT2 THEN "NotT2Issuer"
  ELSE IF domainToIssuer[Hash(domain)] # ZERO THEN "DomainAlreadyRegistered"
  ELSE ""
UpgradeToT1(sender, domain, verificationData) ==
  LET err == UpgradeToT1Err(sender, domain)
      oldVerificationData == issuers[sender].verificationData
  IN
  /\ IF err = ""
     THEN /\ issuers' = [issuers EXCEPT ![sender].tier = TierT1,
                                        ![sender].verificationData = verificationData,
                                        ![sender].verifiedAt = now]
          /\ domainToIssuer' = [domainToIssuer EXCEPT ![Hash(domain)] = sender]
          /\ socialMediaToIssuer' =
                 [socialMediaToIssuer EXCEPT ![Hash(oldVerificationData)] = ZERO]
     ELSE UNCHANGED <<issuers, domainToIssuer, socialMediaToIssuer>>
  /\ last' = Call("upgradeToT1", sender, err, 0)
  /\ UNCHANGED <<now, irAdmins, nftVars, zkVars>>

\* a variant of the checks of deactivateIssuer and reactivateIssuer without
\* the require on the tier
SetActiveErrNoTierCheck(sender, issuer) == OnlyAdminErr(sender)
\* onlyAdmin, then the require of deactivateIssuer and reactivateIssuer
SetActiveErr(sender, issuer) ==
  IF OnlyAdminErr(sender) # "" THEN OnlyAdminErr(sender)
  ELSE IF issuers[issuer].tier = TierNONE THEN "NotRegisteredIssuer"
  ELSE ""
DeactivateIssuer(sender, issuer) ==
  LET err == SetActiveErr(sender, issuer) IN
  /\ issuers' = IF err = "" THEN [issuers EXCEPT ![issuer].isActive = FALSE] ELSE issuers
  /\ last' = Call("deactivateIssuer", sender, err, 0)
  /\ UNCHANGED <<now, domainToIssuer, socialMediaToIssuer, irAdmins, nftVars, zkVars>>
ReactivateIssuer(sender, issuer) ==
  LET err == SetActiveErr(sender, issuer) IN
  /\ issuers' = IF err = "" THEN [issuers EXCEPT ![issuer].isActive = TRUE] ELSE issuers
  /\ last' = Call("reactivateIssuer", sender, err, 0)
  /\ UNCHANGED <<now, domainToIssuer, socialMediaToIssuer, irAdmins, nftVars, zkVars>>

(***************************************************************************)
(* SoulboundNFT, with the ERC721 functions it inherits and overrides.      *)
(***************************************************************************)
\* approve and setApprovalForAll always revert, so no approval is ever stored
getApproved(id) == ZERO
isApprovedForAll(tokenOwner, operator) == FALSE
\* ERC721._isAuthorized
IsAuthorized(tokenOwner, spender, id) ==
  /\ spender # ZERO
  /\ \/ tokenOwner = spender
     \/ isApprovedForAll(tokenOwner, spender)
     \/ getApproved(id) = spender

\* a variant of UpdateErr without the soulbound check of the override
UpdateErrTransferable(to, id, auth) ==
  LET from == owners[id] IN
  IF auth # ZERO /\ ~IsAuthorized(from, auth, id)
  THEN (IF from = ZERO THEN "ERC721NonexistentToken" ELSE "ERC721InsufficientApproval")
  ELSE ""
\* SoulboundNFT._update, then ERC721._update: the revert, if any
UpdateErr(to, id, auth) ==
  LET from == owners[id] IN
  IF from # ZERO /\ to # ZERO THEN "SoulboundToken"
  ELSE IF auth # ZERO /\ ~IsAuthorized(from, auth, id)
       THEN (IF from = ZERO THEN "ERC721NonexistentToken" ELSE "ERC721InsufficientApproval")
  ELSE ""
\* ERC721._update: _owners and _balances after it
OwnersAfterUpdate(to, id) == [owners EXCEPT ![id] = to]
BalancesAfterUpdate(to, id) ==
  LET from == owners[id]
      b1 == IF from # ZERO THEN [balances EXCEPT ![from] = @ - 1] ELSE balances
  IN IF to # ZERO THEN [b1 EXCEPT ![to] = @ + 1] ELSE b1

\* ERC721._mint
MintErr(to, id) ==
  IF to = ZERO THEN "ERC721InvalidReceiver"
  ELSE IF UpdateErr(to, id, ZERO) # "" THEN UpdateErr(to, id, ZERO)
  ELSE IF owners[id] # ZERO THEN "ERC721InvalidSender"
  ELSE ""
\* ERC721._burn
BurnErr(id) ==
  IF UpdateErr(ZERO, id, ZERO) # "" THEN UpdateErr(ZERO, id, ZERO)
  ELSE IF owners[id] = ZERO THEN "ERC721NonexistentToken"
  ELSE ""

\* a variant of isEligible that checks against the root of the constructor
isEligibleInitialRoot(recipient, merkleProof) ==
  MerkleVerify(merkleProof, InitialRoot, LeafOf(recipient))
\* a variant of isEligible whose leaf is not the recipient's
isEligibleAnyLeaf(recipient, merkleProof) ==
  \E a \in AddrOrZero : MerkleVerify(merkleProof, merkleRoot, LeafOf(a))
isEligible(recipient, merkleProof) == MerkleVerify(merkleProof, merkleRoot, LeafOf(recipient))

\* a variant of MintRequireErr whose possession check is per issuer
MintRequireErrPerIssuer(sender, recipient, merkleProof) ==
  IF ~isVerifiedIssuer(sender) THEN "NotVerifiedIssuer"
  ELSE IF ~isEligible(recipient, merkleProof) THEN "NotEligible"
  ELSE IF \E id \in IdArgs : owners[id] = recipient /\ certificates[id].issuer = sender
       THEN "AlreadyPossesses"
  ELSE ""
\* a variant of MintRequireErr without the possession check
MintRequireErrNoFlag(sender, recipient, merkleProof) ==
  IF ~isVerifiedIssuer(sender) THEN "NotVerifiedIssuer"
  ELSE IF ~isEligible(recipient, merkleProof) THEN "NotEligible"
  ELSE ""
\* the three require statements of mintCertificate, in order
MintRequireErr(sender, recipient, merkleProof) ==
  IF ~isVerifiedIssuer(sender) THEN "NotVerifiedIssuer"
  ELSE IF ~isEligible(recipient, merkleProof) THEN "NotEligible"
  ELSE IF hasCertificate[recipient] THEN "AlreadyPossesses"
  ELSE ""
\* a variant of the id allocation that hands out the smallest id not held
NextTokenIdReuse ==
  IF \E id \in 1..MaxTokens : owners[id] = ZERO
  THEN CHOOSE id \in 1..MaxTokens :
         owners[id] = ZERO /\ \A other \in 1..(id - 1) : owners[other] # ZERO
  ELSE tokenIdCounter + 1
\* _tokenIdCounter++ and the id read back from it
NextTokenId == tokenIdCounter + 1
MintCertificateErr(sender, recipient, merkleProof) ==
  IF MintRequireErr(sender, recipient, merkleProof) # ""
  THEN MintRequireErr(sender, recipient, merkleProof)
  ELSE MintErr(recipient, NextTokenId)

\* the body of mintCertificate, reached through either entry point
MintBody(op, sender, recipient, merkleProof) ==
  LET tokenId == NextTokenId IN
  /\ MintRequireErr(sender, recipient, merkleProof) = "" => tokenIdCounter < MaxTokens
  /\ LET err == MintCertificateErr(sender, recipient, merkleProof) IN
     IF err = ""
     THEN /\ tokenIdCounter' = tokenId
          /\ owners' = OwnersAfterUpdate(recipient, tokenId)
          /\ balances' = BalancesAfterUpdate(recipient, tokenId)
          /\ certificates' = [certificates EXCEPT ![tokenId] =
                [issuer |-> sender, issuerLevel |-> getIssuerTier(sender),
                 metadataURI |-> baseTokenURI \o toString(tokenId), issuedAt |-> now,
                 recipient |-> recipient]]
          /\ hasCertificate' = [hasCertificate EXCEPT ![recipient] = TRUE]
          /\ last' = Call(op, sender, "", tokenId)
          /\ UNCHANGED <<merkleRoot, baseTokenURI>>
     ELSE /\ last' = Call(op, sender, err, 0)
          /\ UNCHANGED nftVars
  /\ UNCHANGED <<now, irVars, zkVars>>

MintCertificate(sender, recipient, merkleProof) ==
  MintBody("mintCertificate", sender, recipient, merkleProof)
\* mint: the alias of mintCertificate
Mint(sender, recipient, merkleProof) == MintBody("mint", sender, recipient, merkleProof)

\* a variant of burn's require that also lets the issuer of the certificate in
BurnCallErrIssuerToo(sender, tokenId) ==
  IF ~(\/ sender = owners[tokenId]
       \/ sender = nftOwner
       \/ sender = certificates[tokenId].issuer)
  THEN "NotAuthorisedToBurn"
  ELSE BurnErr(tokenId)
\* burn: the require, then the revert of _burn
BurnCallErr(sender, tokenId) ==
  IF ~(sender = owners[tokenId] \/ sender = nftOwner) THEN "NotAuthorisedToBurn"
  ELSE BurnErr(tokenId)
Burn(sender, tokenId) ==
  LET tokenOwner == owners[tokenId]
      err == BurnCallErr(sender, tokenId)
  IN
  /\ IF err = ""
     THEN /\ owners' = OwnersAfterUpdate(ZERO, tokenId)
          /\ balances' = BalancesAfterUpdate(ZERO, tokenId)
          /\ hasCertificate' = [hasCertificate EXCEPT ![tokenOwner] = FALSE]
          /\ UNCHANGED <<tokenIdCounter, certificates, merkleRoot, baseTokenURI>>
     ELSE UNCHANGED nftVars
  /\ last' = Call("burn", sender, err, 0)
  /\ UNCHANGED <<now, irVars, zkVars>>

\* ERC721.transferFrom
TransferFromErr(sender, from, to, tokenId) ==
  IF to = ZERO THEN "ERC721InvalidReceiver"
  ELSE IF UpdateErr(to, tokenId, sender) # "" THEN UpdateErr(to, tokenId, sender)
  ELSE IF owners[tokenId] # from THEN "ERC721IncorrectOwner"
  ELSE ""
TransferBody(op, sender, from, to, tokenId) ==
  LET err == TransferFromErr(sender, from, to, tokenId) IN
  /\ IF err = ""
     THEN /\ owners' = OwnersAfterUpdate(to, tokenId)
          /\ balances' = BalancesAfterUpdate(to, tokenId)
          /\ UNCHANGED <<tokenIdCounter, certificates, merkleRoot, baseTokenURI,
                         hasCertificate>>
     ELSE UNCHANGED nftVars
  /\ last' = Call(op, sender, err, 0)
  /\ UNCHANGED <<now, irVars, zkVars>>
TransferFrom(sender, from, to, tokenId) ==
  TransferBody("transferFrom", sender, from, to, tokenId)
\* ERC721.safeTransferFrom: transferFrom, then the receiver hook (an account
\* without code accepts)
SafeTransferFrom(sender, from, to, tokenId) ==
  TransferBody("safeTransferFrom", sender, from, to, tokenId)

\* a variant of ApproveErr that only blocks clearing an approval
ApproveErrNonZero(to, tokenId) == IF to = ZERO THEN "SoulboundToken" ELSE ""
ApproveErr(to, tokenId) == "SoulboundToken"
Approve(sender, to, tokenId) ==
  /\ last' = Call("approve", sender, ApproveErr(to, tokenId), 0)
  /\ UNCHANGED <<now, irVars, nftVars, zkVars>>
SetApprovalForAllErr(operator, approved) == "SoulboundToken"
SetApprovalForAll(sender, operator, approved) ==
  /\ last' = Call("setApprovalForAll", sender, SetApprovalForAllErr(operator, approved), 0)
  /\ UNCHANGED <<now, irVars, nftVars, zkVars>>

\* a variant of setBaseURI that rewrites the URI stored with every certificate
SetBaseURIRewriting(sender, newBaseURI) ==
  LET err == OnlyOwnerErr(sender, nftOwner) IN
  /\ baseTokenURI' = IF err = "" THEN newBaseURI ELSE baseTokenURI
  /\ certificates' =
       IF err = ""
       THEN [tokenId \in DOMAIN certificates |->
               IF certificates[tokenId].issuer = ZERO THEN certificates[tokenId]
               ELSE [certificates[tokenId] EXCEPT
                       !.metadataURI = newBaseURI \o toString(tokenId)]]
       ELSE certificates
  /\ last' = Call("setBaseURI", sender, err, 0)
  /\ UNCHANGED <<now, irVars, zkVars, tokenIdCounter, owners, balances, merkleRoot,
                 hasCertificate>>
SetBaseURI(sender, newBaseURI) ==
  LET err == OnlyOwnerErr(sender, nftOwner) IN
  /\ baseTokenURI' = IF err = "" THEN newBaseURI ELSE baseTokenURI
  /\ last' = Call("setBaseURI", sender, err, 0)
  /\ UNCHANGED <<now, irVars, zkVars, tokenIdCounter, owners, balances, certificates,
                 merkleRoot, hasCertificate>>
SetMerkleRoot(sender, newMerkleRoot) ==
  LET err == OnlyOwnerErr(sender, nftOwner) IN
  /\ merkleRoot' = IF err = "" THEN newMerkleRoot ELSE merkleRoot
  /\ last' = Call("setMerkleRoot", sender, err, 0)
  /\ UNCHANGED <<now, irVars, zkVars, tokenIdCounter, owners, balances, certificates,
                 baseTokenURI, hasCertificate>>

\* the views
getMerkleRoot == merkleRoot
\* a variant of _exists that does not look at the holder
ExistsIgnoringHolder(tokenId) == tokenId # 0 /\ tokenId <= tokenIdCounter
Exists(tokenId) == tokenId # 0 /\ tokenId <= tokenIdCounter /\ owners[tokenId] # ZERO
\* tokenURI: the revert, if any, and the value returned
TokenURIErr(tokenId) == IF ~Exists(tokenId) THEN "NonexistentToken" ELSE ""
tokenURI(tokenId) == certificates[tokenId].metadataURI
balanceOf(a) == balances[a]
\* getCertificateData, issuerOf, getIssuedAt: the revert, if any, and the
\* value returned
GetCertificateDataErr(tokenId) == IF ~Exists(tokenId) THEN "NonexistentToken" ELSE ""
getCertificateData(tokenId) ==
  <<certificates[tokenId].issuer, certificates[tokenId].issuerLevel,
    certificates[tokenId].metadataURI, certificates[tokenId].issuedAt>>
IssuerOfErr(tokenId) == IF ~Exists(tokenId) THEN "NonexistentToken" ELSE ""
issuerOf(tokenId) == certificates[tokenId].issuer
GetIssuedAtErr(tokenId) == IF ~Exists(tokenId) THEN "NonexistentToken" ELSE ""
getIssuedAt(tokenId) == certificates[tokenId].issuedAt

(***************************************************************************)
(* ZKVerifier                                                              *)
(***************************************************************************)
ZkAddAdmin(sender, admin) ==
  LET err == OnlyOwnerErr(sender, zkOwner) IN
  /\ zkAdmins' = IF err = "" THEN [zkAdmins EXCEPT ![admin] = TRUE] ELSE zkAdmins
  /\ last' = Call("zk.addAdmin", sender, err, 0)
  /\ UNCHANGED <<now, irVars, nftVars, zkProofVars>>
ZkRemoveAdmin(sender, admin) ==
  LET err == OnlyOwnerErr(sender, zkOwner) IN
  /\ zkAdmins' = IF err = "" THEN [zkAdmins EXCEPT ![admin] = FALSE] ELSE zkAdmins
  /\ last' = Call("zk.removeAdmin", sender, err, 0)
  /\ UNCHANGED <<now, irVars, nftVars, zkProofVars>>

\* modifier onlyAdmin of ZKVerifier
ZkOnlyAdminErr(sender) == IF ~zkAdmins[sender] THEN "NotAdmin" ELSE ""

\* a variant of registerCircuit's checks that admits the null verifier
RegisterCircuitErrAnyVerifier(sender, verifierContract) == ZkOnlyAdminErr(sender)
\* onlyAdmin, then the require of registerCircuit
RegisterCircuitErr(sender, verifierContract) ==
  IF ZkOnlyAdminErr(sender) # "" THEN ZkOnlyAdminErr(sender)
  ELSE IF verifierContract = ZERO THEN "InvalidVerifierContract"
  ELSE ""
\* _circuitIdCounter++ and the id read back from it
NextCircuitId == circuitIdCounter + 1
RegisterCircuit(sender, name, description, verifierContract) ==
  LET err == RegisterCircuitErr(sender, verifierContract)
      circuitId == NextCircuitId
  IN
  /\ err = "" => circuitIdCounter < MaxCircuits
  /\ IF err = ""
     THEN /\ circuitIdCounter' = circuitId
          /\ circuits' = [circuits EXCEPT ![circuitId] =
                [id |-> circuitId, name |-> name, description |-> description,
                 verifierContract |-> verifierContract, isActive |-> TRUE]]
          /\ last' = Call("registerCircuit", sender, "", circuitId)
     ELSE /\ UNCHANGED <<circuitIdCounter, circuits>>
          /\ last' = Call("registerCircuit", sender, err, 0)
  /\ UNCHANGED <<now, irVars, nftVars, zkAdmins, proofIdCounter, proofs, ownerProofs>>

\* a variant of createProof's require that admits every registered circuit
CreateProofErrAnyRegistered(circuitId, validityPeriod) ==
  IF circuits[circuitId].id = 0 THEN "CircuitNotActive"
  ELSE IF now + validityPeriod > MaxUint THEN "Panic"
  ELSE ""
\* createProof: the require, then the checked addition of the expiry
CreateProofErr(circuitId, validityPeriod) ==
  IF ~circuits[circuitId].isActive THEN "CircuitNotActive"
  ELSE IF now + validityPeriod > MaxUint THEN "Panic"
  ELSE ""
\* _proofIdCounter++ and the id read back from it
NextProofId == proofIdCounter + 1
\* block.timestamp + validityPeriod
ExpiresAt(validityPeriod) == now + validityPeriod
CreateProof(sender, circuitId, proofData, publicInputs, validityPeriod) ==
  LET err == CreateProofErr(circuitId, validityPeriod)
      proofId == NextProofId
  IN
  /\ err = "" => proofIdCounter < MaxProofs
  /\ IF err = ""
     THEN /\ proofIdCounter' = proofId
          /\ proofs' = [proofs EXCEPT ![proofId] =
                [id |-> proofId, owner |-> sender, circuitId |-> circuitId,
                 proofHash |-> ProofHashOf(proofData, publicInputs), createdAt |-> now,
                 expiresAt |-> ExpiresAt(validityPeriod), isRevoked |-> FALSE]]
          /\ ownerProofs' = [ownerProofs EXCEPT ![sender] = Append(@, proofId)]
          /\ last' = Call("createProof", sender, "", proofId)
     ELSE /\ UNCHANGED <<proofIdCounter, proofs, ownerProofs>>
          /\ last' = Call("createProof", sender, err, 0)
  /\ UNCHANGED <<now, irVars, nftVars, zkAdmins, circuitIdCounter, circuits>>

\* a variant of _isProofValid that also wants the proof's circuit active
IsProofValidActiveCircuit(proofId) ==
  IF proofs[proofId].id = 0 THEN FALSE
  ELSE IF proofs[proofId].isRevoked THEN FALSE
  ELSE IF now > proofs[proofId].expiresAt THEN FALSE
  ELSE circuits[proofs[proofId].circuitId].isActive
\* a variant of _isProofValid under which a proof is expired at its expiry
\* instant already
IsProofValidExclusive(proofId) ==
  IF proofs[proofId].id = 0 THEN FALSE
  ELSE IF proofs[proofId].isRevoked THEN FALSE
  ELSE IF now >= proofs[proofId].expiresAt THEN FALSE
  ELSE TRUE
\* _isProofValid
IsProofValid(proofId) ==
  IF proofs[proofId].id = 0 THEN FALSE
  ELSE IF proofs[proofId].isRevoked THEN FALSE
  ELSE IF now > proofs[proofId].expiresAt THEN FALSE
  ELSE TRUE
\* verifyProof(uint256)
verifyProof(proofId) == IsProofValid(proofId)
\* a variant of verifyProof(uint256, address) that refuses the null verifier
verifyProofAclNoNull(proofId, verifierAddress) ==
  IF proofs[proofId].id = 0 THEN FALSE
  ELSE IF proofs[proofId].isRevoked THEN FALSE
  ELSE IF now > proofs[proofId].expiresAt THEN FALSE
  ELSE IF verifierAddress = ZERO \/ ~zkAdmins[verifierAddress] THEN FALSE
  ELSE TRUE
\* verifyProof(uint256, address)
verifyProofAcl(proofId, verifierAddress) ==
  IF proofs[proofId].id = 0 THEN FALSE
  ELSE IF proofs[proofId].isRevoked THEN FALSE
  ELSE IF now > proofs[proofId].expiresAt THEN FALSE
  ELSE IF verifierAddress # ZERO /\ ~zkAdmins[verifierAddress] THEN FALSE
  ELSE TRUE
\* a call of either verifyProof: a view, it returns its value and writes
\* nothing
VerifyProofCall(sender, proofId) ==
  /\ last' = Call("verifyProof", sender, "", verifyProof(proofId))
  /\ UNCHANGED <<now, irVars, nftVars, zkVars>>
VerifyProofAclCall(sender, proofId, verifierAddress) ==
  /\ last' = Call("verifyProofAcl", sender, "", verifyProofAcl(proofId, verifierAddress))
  /\ UNCHANGED <<now, irVars, nftVars, zkVars>>

\* a variant of revokeProof's requires that refuses a revoked proof
RevokeProofErrOnce(sender, proofId) ==
  IF proofs[proofId].id = 0 THEN "ProofDoesNotExist"
  ELSE IF ~(proofs[proofId].owner = sender \/ zkAdmins[sender]) THEN "NotAuthorizedToRevoke"
  ELSE IF proofs[proofId].isRevoked THEN "AlreadyRevoked"
  ELSE ""
\* a variant of revokeProof's requires that looks at the caller first
RevokeProofErrAuthFirst(sender, proofId) ==
  IF ~(proofs[proofId].owner = sender \/ zkAdmins[sender]) THEN "NotAuthorizedToRevoke"
  ELSE IF proofs[proofId].id = 0 THEN "ProofDoesNotExist"
  ELSE ""
\* the requires of revokeProof
RevokeProofErr(sender, proofId) ==
  IF proofs[proofId].id = 0 THEN "ProofDoesNotExist"
  ELSE IF ~(proofs[proofId].owner = sender \/ zkAdmins[sender]) THEN "NotAuthorizedToRevoke"
  ELSE ""
\* a variant of revokeProof that flips isRevoked
RevokeProofToggle(sender, proofId) ==
  LET err == RevokeProofErr(sender, proofId) IN
  /\ proofs' = IF err = "" THEN [proofs EXCEPT ![proofId].isRevoked = ~@] ELSE proofs
  /\ last' = Call("revokeProof", sender, err, 0)
  /\ UNCHANGED <<now, irVars, nftVars, zkAdmins, circuitIdCounter, proofIdCounter, circuits,
                 ownerProofs>>
RevokeProof(sender, proofId) ==
  LET err == RevokeProofErr(sender, proofId) IN
  /\ proofs' = IF err = "" THEN [proofs EXCEPT ![proofId].isRevoked = TRUE] ELSE proofs
  /\ last' = Call("revokeProof", sender, err, 0)
  /\ UNCHANGED <<now, irVars, nftVars, zkAdmins, circuitIdCounter, proofIdCounter, circuits,
                 ownerProofs>>

\* the views of the records
getProofData(proofId) == proofs[proofId]
getCircuitData(circuitId) == circuits[circuitId]
getProofsByOwner(a) == ownerProofs[a]

\* onlyAdmin, then the require of deactivateCircuit and reactivateCircuit
SetCircuitActiveErr(sender, circuitId) ==
  IF ZkOnlyAdminErr(sender) # "" THEN ZkOnlyAdminErr(sender)
  ELSE IF circuits[circuitId].id = 0 THEN "CircuitDoesNotExist"
  ELSE ""
DeactivateCircuit(sender, circuitId) ==
  LET err == SetCircuitActiveErr(sender, circuitId) IN
  /\ circuits' = IF err = "" THEN [circuits EXCEPT ![circuitId].isActive = FALSE]
                 ELSE circuits
  /\ last' = Call("deactivateCircuit", sender, err, 0)
  /\ UNCHANGED <<now, irVars, nftVars, zkAdmins, circuitIdCounter, proofIdCounter, proofs,
                 ownerProofs>>
ReactivateCircuit(sender, circuitId) ==
  LET err == SetCircuitActiveErr(sender, circuitId) IN
  /\ circuits' = IF err = "" THEN [circuits EXCEPT ![circuitId].isActive = TRUE]
                 ELSE circuits
  /\ last' = Call("reactivateCircuit", sender, err, 0)
  /\ UNCHANGED <<now, irVars, nftVars, zkAdmins, circuitIdCounter, proofIdCounter, proofs,
                 ownerProofs>>

\* the block timestamp advances
Tick ==
  /\ now < MaxTime
  /\ now' = now + 1
  /\ UNCHANGED <<irVars, nftVars, zkVars, last>>

(***************************************************************************)
(* The transactions, for every caller and every argument of the input sets.*)
(***************************************************************************)
\* the accounts that apply for verification as issuers
Applicants == {"alice", "bob"}

IrAddAdminStep == \E sender \in Addr, admin \in Addr : IrAddAdmin(sender, admin)
IrRemoveAdminStep == \E sender \in Addr, admin \in Addr : IrRemoveAdmin(sender, admin)
ManualVerifyStep ==
  \E sender \in Addr, issuer \in Applicants, issuerName \in Names :
    ManualVerifyIssuer(sender, issuer, issuerName)
DeactivateStep == \E sender \in Addr, issuer \in Applicants : DeactivateIssuer(sender, issuer)
ReactivateStep == \E sender \in Addr, issuer \in Applicants : ReactivateIssuer(sender, issuer)
VerifyT1Step ==
  \E sender \in Applicants, issuerName \in Names, domain \in Domains,
     verificationData \in VData :
    VerifyIssuerT1(sender, issuerName, domain, verificationData)
VerifyT2Step ==
  \E sender \in Applicants, issuerName \in Names, socialMediaUrl \in Urls :
    VerifyIssuerT2(sender, issuerName, socialMediaUrl)
UpgradeStep ==
  \E sender \in Applicants, domain \in Domains, verificationData \in VData :
    UpgradeToT1(sender, domain, verificationData)
MintCertificateStep ==
  \E sender \in Addr, recipient \in AddrOrZero, merkleProof \in Proofs :
    MintCertificate(sender, recipient, merkleProof)
MintStep ==
  \E sender \in Addr, recipient \in AddrOrZero, merkleProof \in Proofs :
    Mint(sender, recipient, merkleProof)
BurnStep == \E sender \in Addr, tokenId \in IdArgs : Burn(sender, tokenId)
TransferFromStep ==
  \E sender \in Addr, from \in Addr, to \in AddrOrZero, tokenId \in IdArgs :
    TransferFrom(sender, from, to, tokenId)
SafeTransferFromStep ==
  \E sender \in Addr, from \in Addr, to \in AddrOrZero, tokenId \in IdArgs :
    SafeTransferFrom(sender, from, to, tokenId)
ApproveStep ==
  \E sender \in Addr, to \in AddrOrZero, tokenId \in IdArgs : Approve(sender, to, tokenId)
SetApprovalForAllStep ==
  \E sender \in Addr, operator \in AddrOrZero, approved \in BOOLEAN :
    SetApprovalForAll(sender, operator, approved)
SetBaseURIStep == \E sender \in Addr, newBaseURI \in BaseURIs : SetBaseURI(sender, newBaseURI)
SetMerkleRootStep ==
  \E sender \in Addr, newMerkleRoot \in Roots : SetMerkleRoot(sender, newMerkleRoot)
ZkAddAdminStep == \E sender \in Addr, admin \in Addr : ZkAddAdmin(sender, admin)
ZkRemoveAdminStep == \E sender \in Addr, admin \in Addr : ZkRemoveAdmin(sender, admin)
RegisterCircuitStep ==
  \E sender \in Addr, name \in CircuitNames, description \in Descriptions,
     verifierContract \in VerifierContracts :
    RegisterCircuit(sender, name, description, verifierContract)
CreateProofStep ==
  \E sender \in Addr, circuitId \in CircuitIdArgs, proofData \in ProofDatas,
     publicInputs \in PublicInputs, validityPeriod \in ValidityPeriods :
    CreateProof(sender, circuitId, proofData, publicInputs, validityPeriod)
\* the callers of the views: neither verifyProof reads msg.sender
Readers == {"alice"}
VerifyProofStep ==
  \E sender \in Readers, proofId \in ProofIdArgs : VerifyProofCall(sender, proofId)
VerifyProofAclStep ==
  \E sender \in Readers, proofId \in ProofIdArgs, verifierAddress \in AddrOrZero :
    VerifyProofAclCall(sender, proofId, verifierAddress)
RevokeProofStep == \E sender \in Addr, proofId \in ProofIdArgs : RevokeProof(sender, proofId)
\* registerCircuit that leaves at most MaxCircuitsProofSpecs circuits
RegisterFewCircuitsStep == RegisterCircuitStep /\ circuitIdCounter' <= MaxCircuitsProofSpecs
DeactivateCircuitStep ==
  \E sender \in Addr, circuitId \in CircuitIdArgs : DeactivateCircuit(sender, circuitId)
ReactivateCircuitStep ==
  \E sender \in Addr, circuitId \in CircuitIdArgs : ReactivateCircuit(sender, circuitId)

\* the three contracts together
Next ==
  \/ IrAddAdminStep \/ IrRemoveAdminStep \/ ManualVerifyStep \/ DeactivateStep
  \/ ReactivateStep \/ VerifyT1Step \/ VerifyT2Step \/ UpgradeStep
  \/ MintCertificateStep \/ MintStep \/ BurnStep \/ TransferFromStep
  \/ SafeTransferFromStep \/ ApproveStep \/ SetApprovalForAllStep \/ SetBaseURIStep
  \/ SetMerkleRootStep
  \/ ZkAddAdminStep \/ ZkRemoveAdminStep
  \/ RegisterCircuitStep \/ CreateProofStep \/ VerifyProofStep \/ VerifyProofAclStep
  \/ RevokeProofStep \/ DeactivateCircuitStep \/ ReactivateCircuitStep
  \/ Tick
Spec == Init /\ [][Next]_vars

\* minting, burning and root rotation, with manually verified issuers
NextMint == ManualVerifyStep \/ MintCertificateStep \/ BurnStep \/ SetMerkleRootStep
SpecMint == Init /\ [][NextMint]_vars

\* minting through both entry points while admins verify, deactivate and
\* reactivate issuers
NextAuth ==
  \/ ManualVerifyStep \/ DeactivateStep \/ ReactivateStep
  \/ MintCertificateStep \/ MintStep
SpecAuth == Init /\ [][NextAuth]_vars

\* certificates and every ERC721 way of moving or delegating them
NextSoul ==
  \/ ManualVerifyStep \/ MintCertificateStep \/ BurnStep
  \/ TransferFromStep \/ SafeTransferFromStep \/ ApproveStep \/ SetApprovalForAllStep
SpecSoul == Init /\ [][NextSoul]_vars

\* certificates while the owner changes the base URI
NextURI == ManualVerifyStep \/ MintCertificateStep \/ BurnStep \/ SetBaseURIStep
SpecURI == Init /\ [][NextURI]_vars

\* the owner-only transactions of the three contracts, called by the owner,
\* by admins and by verified issuers
NextOwner ==
  \/ ManualVerifyStep \/ SetMerkleRootStep \/ SetBaseURIStep
  \/ IrAddAdminStep \/ IrRemoveAdminStep \/ ZkAddAdminStep \/ ZkRemoveAdminStep
SpecOwner == Init /\ [][NextOwner]_vars

\* the issuer registry: self-service verification, upgrade, manual
\* verification and deactivation while time passes
NextTier ==
  \/ VerifyT1Step \/ VerifyT2Step \/ UpgradeStep \/ ManualVerifyStep \/ DeactivateStep
  \/ Tick
SpecTier == Init /\ [][NextTier]_vars

\* the issuer registry: verification and upgrade while the owner appoints
\* and dismisses admins, and admins deactivate and reactivate issuers
NextActive ==
  \/ VerifyT1Step \/ VerifyT2Step \/ UpgradeStep \/ ManualVerifyStep
  \/ DeactivateStep \/ ReactivateStep \/ IrAddAdminStep \/ IrRemoveAdminStep
SpecActive == Init /\ [][NextActive]_vars

\* the admin sets of both registries and the operations they guard
NextAdmin ==
  \/ IrAddAdminStep \/ IrRemoveAdminStep \/ ManualVerifyStep \/ DeactivateStep
  \/ ReactivateStep \/ ZkAddAdminStep \/ ZkRemoveAdminStep \/ RegisterFewCircuitsStep
  \/ DeactivateCircuitStep \/ ReactivateCircuitStep
SpecAdmin == Init /\ [][NextAdmin]_vars

\* the proof registry: circuits, proofs and their revocation while time
\* passes
NextProof ==
  \/ RegisterFewCircuitsStep \/ CreateProofStep \/ RevokeProofStep
  \/ DeactivateCircuitStep \/ ReactivateCircuitStep \/ Tick
SpecProof == Init /\ [][NextProof]_vars

\* revocation of proofs while the owner appoints and dismisses admins
NextRevoke ==
  \/ RegisterFewCircuitsStep \/ CreateProofStep \/ RevokeProofStep
  \/ ZkAddAdminStep \/ ZkRemoveAdminStep
SpecRevoke == Init /\ [][NextRevoke]_vars

\* the two verifyProof views read while proofs are created, the clock
\* advances and admins are appointed and dismissed
NextView ==
  \/ RegisterFewCircuitsStep \/ CreateProofStep \/ Tick
  \/ VerifyProofStep \/ VerifyProofAclStep \/ ZkAddAdminStep \/ ZkRemoveAdminStep
SpecView == Init /\ [][NextView]_vars

\* the circuits of the proof registry while the owner appoints and dismisses
\* admins
NextCircuit ==
  \/ ZkAddAdminStep \/ ZkRemoveAdminStep \/ RegisterCircuitStep
  \/ DeactivateCircuitStep \/ ReactivateCircuitStep
SpecCircuit == Init /\ [][NextCircuit]_vars

\* mints interleaved with verification, deactivation and reactivation of the
\* minting issuers
NextStatus ==
  \/ VerifyT2Step \/ ManualVerifyStep \/ DeactivateStep \/ ReactivateStep
  \/ MintCertificateStep
SpecStatus == Init /\ [][NextStatus]_vars

\* one issuer, alice, who verifies, upgrades and mints, while the owner
\* verifies her by hand, deactivates her, rotates the root between two trees
\* and changes the base URI
TheIssuer == "alice"
IssuerVerifyT2Step ==
  \E issuerName \in Names, socialMediaUrl \in Urls :
    VerifyIssuerT2(TheIssuer, issuerName, socialMediaUrl)
IssuerUpgradeStep ==
  \E domain \in Domains, verificationData \in VData :
    UpgradeToT1(TheIssuer, domain, verificationData)
IssuerMintStep ==
  \E recipient \in AddrOrZero, merkleProof \in Proofs :
    MintCertificate(TheIssuer, recipient, merkleProof)
AdminManualVerifyStep == \E issuerName \in Names : ManualVerifyIssuer(irOwner, TheIssuer, issuerName)
AdminDeactivateStep == DeactivateIssuer(irOwner, TheIssuer)
OwnerSetMerkleRootStep ==
  \E newMerkleRoot \in {RootAB, RootB} : SetMerkleRoot(nftOwner, newMerkleRoot)
OwnerSetBaseURIStep == \E newBaseURI \in BaseURIs : SetBaseURI(nftOwner, newBaseURI)
NextSnapshot ==
  \/ IssuerVerifyT2Step \/ IssuerUpgradeStep \/ IssuerMintStep \/ AdminManualVerifyStep
  \/ AdminDeactivateStep \/ OwnerSetMerkleRootStep \/ OwnerSetBaseURIStep
SpecSnapshot == Init /\ [][NextSnapshot]_vars

\* the three registries side by side: alice verifies, upgrades, mints and
\* creates proofs, the owner verifies her by hand, and anyone tries to
\* register a circuit
IssuerCreateProofStep ==
  \E circuitId \in CircuitIdArgs, proofData \in ProofDatas, publicInputs \in PublicInputs,
     validityPeriod \in ValidityPeriods :
    CreateProof(TheIssuer, circuitId, proofData, publicInputs, validityPeriod)
NextAtomic ==
  \/ IssuerVerifyT2Step \/ IssuerUpgradeStep \/ IssuerMintStep \/ AdminManualVerifyStep
  \/ RegisterFewCircuitsStep \/ IssuerCreateProofStep
SpecAtomic == Init /\ [][NextAtomic]_vars

\* the claim maps while issuers verify and verify again, with two domains
\* and two URLs to claim, upgrade, and are verified by hand
ClaimVerifyT2Step ==
  \E sender \in Applicants, issuerName \in Names, socialMediaUrl \in SocialUrls :
    VerifyIssuerT2(sender, issuerName, socialMediaUrl)
NextClaims ==
  \/ VerifyT1Step \/ ClaimVerifyT2Step \/ UpgradeStep \/ ManualVerifyStep
SpecClaims == Init /\ [][NextClaims]_vars

(***************************************************************************)
(* The properties.                                                         *)
(***************************************************************************)
\* the live certificates an identity holds
HeldBy(a) == {id \in IdArgs : owners[id] = a}

\* C1: possession exclusivity.  In every state reachable by mints, burns and
\* root changes, for every recipient the flag _hasCertificate is true iff
\* the recipient holds exactly one un-burned certificate, and nobody ever
\* holds two or more (the ERC721 balance says the same).
C1_PossessionExclusivity ==
  /\ \A a \in Addr :
       /\ Cardinality(HeldBy(a)) <= 1
       /\ hasCertificate[a] <=> Cardinality(HeldBy(a)) = 1
       /\ balanceOf(a) = Cardinality(HeldBy(a))
  /\ ~hasCertificate[ZERO]
\* a recipient holds certificate 2 after certificate 1, also theirs, was burned
C1_Witness ==
  /\ owners[1] = ZERO
  /\ certificates[1].recipient # ZERO
  /\ owners[2] = certificates[1].recipient
  /\ hasCertificate[owners[2]]

\* C2: soulbound.  A transferFrom or safeTransferFrom of a live certificate
\* to a non-null identity reverts with SoulboundToken whoever calls it and
\* leaves the certificate registry unchanged; the holder of an id changes
\* only from null to the recipient in a successful mint and from the holder
\* to null in a successful burn.  (Stated contrapositively: a step that is
\* not such a revert is no transfer of a live certificate by its caller.)
C2_Soulbound ==
  [][/\ (/\ last'.op \in {"transferFrom", "safeTransferFrom"}
         /\ ~(last'.err = "SoulboundToken" /\ UNCHANGED nftVars))
        => \A from \in Addr, to \in Addr, tokenId \in IdArgs :
             owners[tokenId] # ZERO
             => /\ ~TransferFrom(last'.sender, from, to, tokenId)
                /\ ~SafeTransferFrom(last'.sender, from, to, tokenId)
     /\ \A tokenId \in IdArgs :
          owners'[tokenId] # owners[tokenId]
          => \/ /\ owners[tokenId] = ZERO
                /\ last'.op \in {"mintCertificate", "mint"}
                /\ last'.err = ""
                /\ last'.ret = tokenId
                /\ owners'[tokenId] = certificates'[tokenId].recipient
             \/ /\ owners'[tokenId] = ZERO
                /\ last'.op = "burn"
                /\ last'.err = ""]_vars
\* the holder of a live certificate tried to transfer it
C2_Witness ==
  /\ last.op = "transferFrom"
  /\ last.err = "SoulboundToken"
  /\ HeldBy(last.sender) # {}

\* C3: every step that is a call of approve or setApprovalForAll, by any
\* caller with any argument in any state, reverts with SoulboundToken and
\* changes nothing, and getApproved is the null identity for every id.
C3_NoDelegation ==
  [][/\ last'.op \in {"approve", "setApprovalForAll"}
        => (last'.err = "SoulboundToken" /\ UNCHANGED <<nftVars, irVars>>)
     /\ \A tokenId \in IdArgs : getApproved(tokenId) = ZERO]_vars
\* the registry owner had an approval refused while certificates are held
C3_Witness ==
  /\ last.op \in {"approve", "setApprovalForAll"}
  /\ last.err = "SoulboundToken"
  /\ last.sender = nftOwner
  /\ \E a \in Addr : HeldBy(a) # {}

\* C4: every step that is a mint (through either entry point) by a caller
\* whose tier is NONE or who is deactivated reverts as unauthorized, whatever
\* the recipient, the proof and the possession flag are, and changes
\* nothing: no certificate, no flag, no id.
C4_UnverifiedCannotMint ==
  [][(/\ last'.op \in {"mintCertificate", "mint"}
      /\ issuers[last'.sender].tier = TierNONE \/ ~issuers[last'.sender].isActive)
     => (last'.err = "NotVerifiedIssuer" /\ UNCHANGED nftVars)]_vars
\* a registered but deactivated issuer was refused while certificates exist
C4_Witness ==
  /\ last.op = "mintCertificate"
  /\ last.err = "NotVerifiedIssuer"
  /\ issuers[last.sender].tier # TierNONE
  /\ ~issuers[last.sender].isActive
  /\ tokenIdCounter > 0

\* for each root of the model, the (recipient, proof) pairs whose leaf hashes
\* up through the proof to that root
MatchingPairs ==
  [root \in Roots |->
     {rp \in AddrOrZero \X Proofs : ProcessProof(rp[2], LeafOf(rp[1])) = root}]
\* the proof the off-chain tree (sorted pairs, odd leaf promoted) yields for
\* a listed recipient under each root of the model, where the callers of the
\* model can submit it; <<0>>, which nobody submits, otherwise
TreeProof(root, recipient) ==
  CASE root = RootAB /\ recipient = "alice" -> <<LeafOf("bob")>>
    [] root = RootAB /\ recipient = "bob" -> <<LeafOf("alice")>>
    [] root = RootB /\ recipient = "bob" -> << >>
    [] root = RootOAB /\ recipient = "owner" -> <<LeafOf("alice"), LeafOf("bob")>>
    [] OTHER -> <<0>>
\* the step is the call mintCertificate(recipient, merkleProof) of last'.sender
IsMintOf(recipient, merkleProof) == MintCertificate(last'.sender, recipient, merkleProof)
\* the caller of the step is a verified active issuer
CallerVerified == issuers[last'.sender].tier # TierNONE /\ issuers[last'.sender].isActive

\* C5: a mint by a verified active issuer reverts as not eligible whenever
\* the proof does not hash the recipient's leaf up to the current root, and
\* changes nothing; the eligibility check of mintCertificate passes exactly
\* when the view isEligible(recipient, proof) is true, which is exactly when
\* the proof matches the current root; the proof the tree yields for a
\* listed recipient is accepted and nobody else's is.  (The step part is
\* stated contrapositively: a step with another outcome is no such mint.)
C5_IneligibleRejected ==
  /\ [](\A recipient \in AddrOrZero, merkleProof \in Proofs :
          /\ isEligible(recipient, merkleProof)
               <=> <<recipient, merkleProof>> \in MatchingPairs[merkleRoot]
          /\ isEligible(recipient, merkleProof)
               <=> merkleProof = TreeProof(merkleRoot, recipient))
  /\ [][(last'.op = "mintCertificate" /\ CallerVerified)
        => /\ ~(last'.err = "NotEligible" /\ UNCHANGED nftVars)
                => \A rp \in (AddrOrZero \X Proofs) \ MatchingPairs[merkleRoot] :
                     ~IsMintOf(rp[1], rp[2])
           /\ last'.err = "NotEligible"
                => \A rp \in MatchingPairs[merkleRoot] : ~IsMintOf(rp[1], rp[2])]_vars
\* a verified issuer was refused for a recipient of the whitelist, because
\* the proof was another recipient's
C5_Witness ==
  /\ last.op = "mintCertificate"
  /\ last.err = "NotEligible"
  /\ isVerifiedIssuer(last.sender)
  /\ merkleRoot = RootAB
  /\ ~hasCertificate["alice"] /\ ~hasCertificate["bob"]

\* C6: a mint by a verified issuer with a valid proof reverts as already
\* existing when the recipient's flag is set, whoever minted the live
\* certificate; a valid mint for a recipient whose flag is clear succeeds and
\* sets the flag, so of two valid mints for one recipient with no burn
\* between them exactly the first applied succeeds.  (Stated
\* contrapositively: a step with another outcome is no such mint.)
C6_OnePerRecipient ==
  [][(last'.op = "mintCertificate" /\ CallerVerified)
     => \A rp \in MatchingPairs[merkleRoot] :
          /\ (hasCertificate[rp[1]] /\ ~(last'.err = "AlreadyPossesses" /\ UNCHANGED nftVars))
             => ~IsMintOf(rp[1], rp[2])
          /\ (/\ ~hasCertificate[rp[1]]
              /\ rp[1] # ZERO
              /\ ~(last'.err = "" /\ hasCertificate'[rp[1]]))
             => ~IsMintOf(rp[1], rp[2])]_vars
\* an issuer was refused for a recipient whose live certificate another
\* issuer minted
C6_Witness ==
  /\ last.op = "mintCertificate"
  /\ last.err = "AlreadyPossesses"
  /\ \E id \in IdArgs : owners[id] # ZERO
  /\ \A id \in IdArgs : owners[id] # ZERO => certificates[id].issuer # last.sender

\* C7: root rotation.  When a successful setMerkleRoot changes the root,
\* which only the owner's call does, then in the very next state every
\* (recipient, proof) pair that verified against the old root is rejected by
\* isEligible and makes mintCertificate revert (as not eligible when the
\* caller is a verified issuer); isEligible accepts only pairs that verify
\* against the current root; and a mint by a verified issuer that does not
\* revert as not eligible carries no pair valid against another root.
C7_RootRotation ==
  /\ [](\A rp \in AddrOrZero \X Proofs :
          isEligible(rp[1], rp[2]) => rp \in MatchingPairs[getMerkleRoot])
  /\ [][/\ merkleRoot' # merkleRoot
           => /\ last'.op = "setMerkleRoot" /\ last'.err = "" /\ last'.sender = nftOwner
              /\ \A rp \in MatchingPairs[merkleRoot] :
                   /\ ~isEligible(rp[1], rp[2])'
                   /\ \A sender \in Addr :
                        /\ MintCertificateErr(sender, rp[1], rp[2])'
                             \in {"NotVerifiedIssuer", "NotEligible"}
                        /\ isVerifiedIssuer(sender)'
                             => MintCertificateErr(sender, rp[1], rp[2])' = "NotEligible"
        /\ (/\ last'.op = "mintCertificate"
            /\ CallerVerified
            /\ ~(last'.err = "NotEligible" /\ UNCHANGED nftVars))
           => \A root \in Roots \ {merkleRoot} :
                \A rp \in MatchingPairs[root] : ~IsMintOf(rp[1], rp[2])]_vars
\* the owner rotated the root away from the one a live certificate was
\* minted under, while a verified issuer stands ready to mint
C7_Witness ==
  /\ last.op = "setMerkleRoot"
  /\ last.err = ""
  /\ merkleRoot = RootB
  /\ owners[1] = "alice"
  /\ \E a \in Addr : isVerifiedIssuer(a)

\* C8: ids.  A successful mint returns the counter plus one and advances the
\* counter to it, the id it returns was never used before, a failed mint and
\* every other step leave the counter alone, and an issued record is never
\* overwritten; so the ids issued so far are exactly 1..counter, the k-th
\* successful mint returns k, and the id of a burned certificate is not
\* returned again.
C8_IdsIncrease ==
  /\ [](/\ tokenIdCounter \in 0..MaxTokens
        /\ \A id \in IdArgs :
             /\ certificates[id] # ZeroCertificate <=> (1 <= id /\ id <= tokenIdCounter)
             /\ id > tokenIdCounter => owners[id] = ZERO
        /\ owners[0] = ZERO
        /\ (last.op = "mintCertificate" /\ last.err = "") => last.ret = tokenIdCounter)
  /\ [][/\ (last'.op = "mintCertificate" /\ last'.err = "")
           => /\ last'.ret = tokenIdCounter + 1
              /\ tokenIdCounter' = tokenIdCounter + 1
              /\ owners[last'.ret] = ZERO
              /\ certificates[last'.ret] = ZeroCertificate
              /\ owners'[last'.ret] = certificates'[last'.ret].recipient
              /\ owners'[last'.ret] # ZERO
        /\ ~(last'.op = "mintCertificate" /\ last'.err = "")
           => tokenIdCounter' = tokenIdCounter
        /\ \A id \in IdArgs :
             certificates[id] # ZeroCertificate => certificates'[id] = certificates[id]]_vars
\* after certificate 1 was burned, the next successful mint, for the same
\* recipient, returned 2
C8_Witness ==
  /\ last.op = "mintCertificate"
  /\ last.err = ""
  /\ last.ret = 2
  /\ owners[1] = ZERO
  /\ owners[2] = certificates[1].recipient

\* C9: after a successful setBaseURI, tokenURI of every live certificate is
\* the new base followed by the decimal id.
C9_TokenURIFollowsBase ==
  [][(last'.op = "setBaseURI" /\ last'.err = "")
     => \A tokenId \in IdArgs :
          Exists(tokenId)' => tokenURI(tokenId)' = baseTokenURI' \o toString(tokenId)]_vars

\* C10: a call of setMerkleRoot or setBaseURI, or of addAdmin or removeAdmin
\* of the issuer registry or of the proof registry, by anyone but the owner
\* reverts as unauthorized and leaves the root, the base URI and both admin
\* sets as they were, also when the caller is an admin or a verified issuer;
\* these change only in a successful call by the owner.
C10_OwnerOnly ==
  [][/\ (/\ last'.op \in {"setMerkleRoot", "setBaseURI"}
         /\ last'.sender # nftOwner)
        => /\ last'.err = "OwnableUnauthorizedAccount"
           /\ UNCHANGED <<nftVars, irVars, zkVars>>
     /\ (/\ last'.op \in {"ir.addAdmin", "ir.removeAdmin"}
         /\ last'.sender # irOwner)
        => /\ last'.err = "OwnableUnauthorizedAccount"
           /\ UNCHANGED <<nftVars, irVars, zkVars>>
     /\ (/\ last'.op \in {"zk.addAdmin", "zk.removeAdmin"}
         /\ last'.sender # zkOwner)
        => /\ last'.err = "OwnableUnauthorizedAccount"
           /\ UNCHANGED <<nftVars, irVars, zkVars>>
     /\ <<merkleRoot, baseTokenURI, irAdmins, zkAdmins>>'
          # <<merkleRoot, baseTokenURI, irAdmins, zkAdmins>>
        => /\ last'.err = ""
           /\ last'.sender = Deployer
           /\ last'.op \in {"setMerkleRoot", "setBaseURI", "ir.addAdmin",
                            "ir.removeAdmin", "zk.addAdmin", "zk.removeAdmin"}]_vars
\* an admin of both registries who is also a verified issuer was refused a
\* root change
C10_Witness ==
  /\ last.op = "setMerkleRoot"
  /\ last.err = "OwnableUnauthorizedAccount"
  /\ last.sender # nftOwner
  /\ irAdmins[last.sender]
  /\ zkAdmins[last.sender]
  /\ isVerifiedIssuer(last.sender)

\* the step is the call burn(tokenId) of last'.sender
IsBurnOf(tokenId) == Burn(last'.sender, tokenId)

\* C11: a burn of a live certificate by a caller who is neither its holder
\* nor the registry owner, the issuer that minted it included, reverts as not
\* authorised and leaves the certificate, its holder and every possession
\* flag unchanged; a burn of a live certificate by its holder or by the
\* registry owner succeeds; and a certificate loses its holder only in a
\* successful burn called by that holder or by the registry owner.  (The
\* first two parts are stated contrapositively: a step with another outcome
\* is no such burn.)
C11_BurnAuthorisation ==
  [][/\ last'.op = "burn"
        => \A tokenId \in IdArgs :
             /\ (/\ owners[tokenId] # ZERO
                 /\ last'.sender \notin {owners[tokenId], nftOwner}
                 /\ ~(last'.err = "NotAuthorisedToBurn" /\ UNCHANGED nftVars))
                => ~IsBurnOf(tokenId)
             /\ (/\ owners[tokenId] # ZERO
                 /\ last'.sender \in {owners[tokenId], nftOwner}
                 /\ ~(last'.err = "" /\ owners'[tokenId] = ZERO))
                => ~IsBurnOf(tokenId)
     /\ \A tokenId \in IdArgs :
          (owners[tokenId] # ZERO /\ owners'[tokenId] = ZERO)
          => /\ last'.op = "burn"
             /\ last'.err = ""
             /\ last'.sender \in {owners[tokenId], nftOwner}]_vars
\* the issuer of the only live certificate, who is neither its holder nor the
\* registry owner, was refused a burn
C11_Witness ==
  /\ last.op = "burn"
  /\ last.err = "NotAuthorisedToBurn"
  /\ \E tokenId \in IdArgs :
       /\ owners[tokenId] # ZERO
       /\ certificates[tokenId].issuer = last.sender
       /\ owners[tokenId] # last.sender
  /\ HeldBy(last.sender) = {}
  /\ last.sender # nftOwner

\* C12: a burn of an id that has no holder (never minted, or burned before)
\* reverts as a nonexistent token for every caller and changes no possession
\* flag.
C12_BurnNotFound ==
  [][last'.op = "burn"
     => \A tokenId \in IdArgs :
          (owners[tokenId] = ZERO /\ IsBurnOf(tokenId))
          => (last'.err = "ERC721NonexistentToken" /\ UNCHANGED hasCertificate)]_vars

\* the id had a holder once and has none now
Burned(tokenId) == certificates[tokenId] # ZeroCertificate /\ owners[tokenId] = ZERO

\* C13: a successful burn, by the holder or by the registry owner, clears
\* the former holder's possession flag; for a burned id getCertificateData,
\* tokenURI, issuerOf and getIssuedAt revert as nonexistent, and a burned id
\* stays burned in every later state; and right after the burn a mint to the
\* former holder by a verified issuer with the proof valid for the current
\* root passes every check and gets the next, never used, id (while the
\* model's cap on ids is not reached).
C13_BurnIsFinal ==
  /\ [](\A tokenId \in IdArgs :
          Burned(tokenId)
          => /\ GetCertificateDataErr(tokenId) = "NonexistentToken"
             /\ TokenURIErr(tokenId) = "NonexistentToken"
             /\ IssuerOfErr(tokenId) = "NonexistentToken"
             /\ GetIssuedAtErr(tokenId) = "NonexistentToken")
  /\ [][/\ \A tokenId \in IdArgs : Burned(tokenId) => Burned(tokenId)'
        /\ (last'.op = "burn" /\ last'.err = "")
           => \E tokenId \in IdArgs, holder \in Addr :
                /\ owners[tokenId] = holder
                /\ last'.sender \in {holder, nftOwner}
                /\ IsBurnOf(tokenId)
                /\ Burned(tokenId)'
                /\ ~hasCertificate'[holder]
                /\ tokenIdCounter < MaxTokens
                   => \A sender \in Addr, merkleProof \in Proofs :
                        (isVerifiedIssuer(sender)' /\ isEligible(holder, merkleProof)')
                        => /\ MintCertificateErr(sender, holder, merkleProof)' = ""
                           /\ NextTokenId' = tokenIdCounter + 1
                           /\ owners[tokenIdCounter + 1] = ZERO
                           /\ ~Burned(tokenIdCounter + 1)]_vars
\* the registry owner burned the certificate of a holder who is still on the
\* whitelist, while a verified issuer stands ready to mint again
C13_Witness ==
  /\ last.op = "burn"
  /\ last.err = ""
  /\ last.sender = nftOwner
  /\ Burned(1)
  /\ certificates[1].recipient # nftOwner
  /\ ~hasCertificate[certificates[1].recipient]
  /\ \E merkleProof \in Proofs : isEligible(certificates[1].recipient, merkleProof)
  /\ \E a \in Addr : isVerifiedIssuer(a)
  /\ tokenIdCounter < MaxTokens

\* C14: an issuer whose tier is T1 keeps tier T1 in every step.
C14_TierMonotonic ==
  [][\A a \in Addr : getIssuerTier(a) = TierT1 => getIssuerTier(a)' = TierT1]_vars

\* ASCII folding of a string: upper-case letters become lower-case
FoldASCII(str) == [i \in 1..Len(str) |-> IF str[i] \in 65..90 THEN str[i] + 32 ELSE str[i]]
\* the domain, folded, is bound to an issuer other than the caller of the step
DomainTakenByOther(domain) == domainToIssuer[FoldASCII(domain)] \notin {ZERO, last'.sender}
\* the URL, folded, is bound to an issuer other than the caller of the step
UrlTakenByOther(socialMediaUrl) ==
  socialMediaToIssuer[FoldASCII(socialMediaUrl)] \notin {ZERO, last'.sender}

\* C15, as stated: a verifyIssuerT1 or an upgradeToT1 with a domain, or a
\* verifyIssuerT2 with a URL, that is bound (compared after ASCII folding) to
\* another issuer reverts as already registered and changes nothing in the
\* issuer registry.
C15_ConflictWhenBound ==
  [][/\ last'.op = "verifyIssuerT1"
        => \A issuerName \in Names, domain \in Domains, verificationData \in VData :
             (/\ DomainTakenByOther(domain)
              /\ VerifyIssuerT1(last'.sender, issuerName, domain, verificationData))
             => (last'.err = "DomainAlreadyRegistered" /\ UNCHANGED irVars)
     /\ last'.op = "upgradeToT1"
        => \A domain \in Domains, verificationData \in VData :
             (/\ DomainTakenByOther(domain)
              /\ UpgradeToT1(last'.sender, domain, verificationData))
             => (last'.err = "DomainAlreadyRegistered" /\ UNCHANGED irVars)
     /\ last'.op = "verifyIssuerT2"
        => \A issuerName \in Names, socialMediaUrl \in Urls :
             (/\ UrlTakenByOther(socialMediaUrl)
              /\ VerifyIssuerT2(last'.sender, issuerName, socialMediaUrl))
             => (last'.err = "SocialAlreadyRegistered" /\ UNCHANGED irVars)]_vars

\* C15, amended: as C15_ConflictWhenBound, except that an upgradeToT1 by a
\* caller whose tier is not T2 reverts on the tier check, which comes first;
\* it still changes nothing.  Moreover a bound domain is never rebound, and a
\* bound URL is never rebound: it is only released, by the successful upgrade
\* of the issuer it is bound to; so no claim is ever bound to two issuers and
\* of two callers racing for a claim the first applied keeps it.
C15_ClaimUniqueness ==
  [][/\ last'.op = "verifyIssuerT1"
        => \A issuerName \in Names, domain \in Domains, verificationData \in VData :
             (/\ DomainTakenByOther(domain)
              /\ VerifyIssuerT1(last'.sender, issuerName, domain, verificationData))
             => (last'.err = "DomainAlreadyRegistered" /\ UNCHANGED irVars)
     /\ last'.op = "upgradeToT1"
        => \A domain \in Domains, verificationData \in VData :
             (/\ DomainTakenByOther(domain)
              /\ UpgradeToT1(last'.sender, domain, verificationData))
             => /\ last'.err = IF getIssuerTier(last'.sender) = TierT2
                               THEN "DomainAlreadyRegistered" ELSE "NotT2Issuer"
                /\ UNCHANGED irVars
     /\ last'.op = "verifyIssuerT2"
        => \A issuerName \in Names, socialMediaUrl \in Urls :
             (/\ UrlTakenByOther(socialMediaUrl)
              /\ VerifyIssuerT2(last'.sender, issuerName, socialMediaUrl))
             => (last'.err = "SocialAlreadyRegistered" /\ UNCHANGED irVars)
     /\ \A h \in DOMAIN domainToIssuer :
          domainToIssuer[h] # ZERO => domainToIssuer'[h] = domainToIssuer[h]
     /\ \A h \in DOMAIN socialMediaToIssuer :
          (socialMediaToIssuer[h] # ZERO /\ socialMediaToIssuer'[h] # socialMediaToIssuer[h])
          => /\ socialMediaToIssuer'[h] = ZERO
             /\ last'.op = "upgradeToT1"
             /\ last'.err = ""
             /\ last'.sender = socialMediaToIssuer[h]]_vars
\* a T2 issuer was refused the upgrade to a domain that another issuer had
\* claimed in another letter case
C15_Witness ==
  /\ last.op = "upgradeToT1"
  /\ last.err = "DomainAlreadyRegistered"
  /\ getIssuerTier(last.sender) = TierT2
  /\ domainToIssuer[<<97>>] \notin {ZERO, last.sender}
  /\ domainToIssuer[<<98>>] # ZERO

\* C16: a step that is an upgradeToT1 (and not the passing of time after one)
\* by a caller whose tier is NONE, MANUAL or T1 reverts
\* on the tier check and changes nothing in the issuer registry; an
\* upgradeToT1 that succeeds was called by an issuer of tier T2.
C16_UpgradePrecondition ==
  [][(last'.op = "upgradeToT1" /\ ~Tick)
     => /\ getIssuerTier(last'.sender) \in {TierNONE, TierMANUAL, TierT1}
           => (last'.err = "NotT2Issuer" /\ UNCHANGED irVars)
        /\ last'.err = "" => getIssuerTier(last'.sender) = TierT2]_vars
\* a manually verified issuer was refused the upgrade while an unclaimed
\* domain was left
C16_Witness ==
  /\ last.op = "upgradeToT1"
  /\ last.err = "NotT2Issuer"
  /\ getIssuerTier(last.sender) = TierMANUAL
  /\ \E domain \in Domains : domainToIssuer[Hash(domain)] = ZERO

\* C17: a step that is a successful upgradeToT1(domain, verificationData)
\* (and not the passing of time after one) makes the caller's
\* tier T1, binds the domain to the caller, releases the URL recorded in the
\* caller's record (so that a verifyIssuerT2 with that URL passes its check
\* again), stores the new verificationData and the current time, and leaves
\* the caller's name, address and isActive, every other issuer's record,
\* every other domain and URL binding and the admins unchanged.
C17_UpgradeEffect ==
  [][(last'.op = "upgradeToT1" /\ last'.err = "" /\ ~Tick)
     => \E sender \in Addr, domain \in Domains, verificationData \in VData,
           oldUrl \in Urls :
          /\ sender = last'.sender
          /\ UpgradeToT1(sender, domain, verificationData)
          /\ getIssuerTier(sender) = TierT2
          /\ issuers[sender].verificationData = oldUrl
          /\ getIssuerTier(sender)' = TierT1
          /\ domainToIssuer'[FoldASCII(domain)] = sender
          /\ socialMediaToIssuer[FoldASCII(oldUrl)] = sender
          /\ socialMediaToIssuer'[FoldASCII(oldUrl)] = ZERO
          /\ VerifyIssuerT2Err(oldUrl)' = ""
          /\ issuers'[sender].verificationData = verificationData
          /\ issuers'[sender].verifiedAt = now
          /\ issuers'[sender].name = issuers[sender].name
          /\ issuers'[sender].issuerAddress = issuers[sender].issuerAddress
          /\ issuers'[sender].isActive = issuers[sender].isActive
          /\ \A other \in Addr \ {sender} : issuers'[other] = issuers[other]
          /\ \A h \in (DOMAIN domainToIssuer) \ {FoldASCII(domain)} :
               domainToIssuer'[h] = domainToIssuer[h]
          /\ \A h \in (DOMAIN socialMediaToIssuer) \ {FoldASCII(oldUrl)} :
               socialMediaToIssuer'[h] = socialMediaToIssuer[h]
          /\ UNCHANGED <<irAdmins, nftVars, zkVars, now>>]_vars
\* a deactivated T2 issuer upgraded, later than it was verified, while
\* another issuer is registered
C17_Witness ==
  /\ last.op = "upgradeToT1"
  /\ last.err = ""
  /\ getIssuerTier(last.sender) = TierT1
  /\ ~issuers[last.sender].isActive
  /\ issuers[last.sender].verifiedAt = 1
  /\ \A h \in DOMAIN socialMediaToIssuer : socialMediaToIssuer[h] # last.sender
  /\ \E other \in Addr \ {last.sender} : getIssuerTier(other) # TierNONE

\* C18: while an issuer is registered and deactivated, no verifyIssuerT1,
\* verifyIssuerT2 or upgradeToT1 makes isVerifiedIssuer true for it.
C18_DeactivatedStaysUnverified ==
  [][\A a \in Addr :
       (/\ getIssuerTier(a) # TierNONE
        /\ ~issuers[a].isActive
        /\ last'.op \in {"verifyIssuerT1", "verifyIssuerT2", "upgradeToT1"})
       => ~isVerifiedIssuer(a)']_vars

\* C19: for every identity isVerifiedIssuer is true iff the tier of the stored
\* record is not NONE and its isActive is true, and getIssuerTier is the tier
\* of the record; an identity whose tier is NONE has the zero record and is
\* not verified; a record leaves the zero value only in a successful
\* verifyIssuerT1 or verifyIssuerT2 of that identity or a successful
\* manualVerifyIssuer, and the tier of a registered identity never returns to
\* NONE, so the identities with the zero record are those that never
\* completed a verification.
C19_IssuerViews ==
  /\ [](\A a \in Addr :
          /\ isVerifiedIssuer(a)
               <=> (getIssuerData(a).tier # TierNONE /\ getIssuerData(a).isActive)
          /\ getIssuerTier(a) = getIssuerData(a).tier
          /\ getIssuerTier(a) = TierNONE
               => (getIssuerData(a) = ZeroIssuer /\ ~isVerifiedIssuer(a)))
  /\ [][\A a \in Addr :
          /\ (getIssuerData(a) = ZeroIssuer /\ getIssuerData(a)' # ZeroIssuer)
             => /\ last'.err = ""
                /\ \/ last'.op \in {"verifyIssuerT1", "verifyIssuerT2"} /\ last'.sender = a
                   \/ last'.op = "manualVerifyIssuer" /\ irAdmins[last'.sender]
                /\ getIssuerTier(a)' # TierNONE
          /\ getIssuerTier(a) # TierNONE => getIssuerTier(a)' # TierNONE]_vars
\* one identity never verified, one registered and deactivated, and the
\* registry answers for both without reverting
C19_Witness ==
  /\ \E a \in Applicants : getIssuerData(a) = ZeroIssuer /\ ~isVerifiedIssuer(a)
  /\ \E a \in Applicants :
       getIssuerTier(a) = TierT1 /\ ~getIssuerData(a).isActive /\ ~isVerifiedIssuer(a)
  /\ last.op = "deactivateIssuer"
  /\ last.err = ""

\* C20: a deactivateIssuer or reactivateIssuer by a caller who is not an
\* admin reverts and changes nothing; by an admin on a target of tier NONE it
\* reverts as not registered and changes nothing; when it succeeds the caller
\* is an admin, the target is registered, the target's isActive becomes false
\* (deactivate) or true (reactivate), and the rest of the target's record,
\* every other record, every claim and the admins are unchanged.
C20_SetActive ==
  [][/\ (last'.op \in {"deactivateIssuer", "reactivateIssuer"} /\ ~irAdmins[last'.sender])
        => (last'.err = "NotAdmin" /\ UNCHANGED <<irVars, nftVars, zkVars>>)
     /\ last'.op \in {"deactivateIssuer", "reactivateIssuer"}
        => \A issuer \in Addr :
             (\/ DeactivateIssuer(last'.sender, issuer)
              \/ ReactivateIssuer(last'.sender, issuer))
             => /\ (irAdmins[last'.sender] /\ getIssuerTier(issuer) = TierNONE)
                   => (last'.err = "NotRegisteredIssuer" /\ UNCHANGED irVars)
                /\ last'.err = ""
                   => /\ irAdmins[last'.sender]
                      /\ getIssuerTier(issuer) # TierNONE
                      /\ issuers' = [issuers EXCEPT
                                       ![issuer].isActive = (last'.op = "reactivateIssuer")]
                      /\ UNCHANGED <<domainToIssuer, socialMediaToIssuer, irAdmins>>]_vars
\* an admin who is not the registry owner was refused the deactivation of an
\* applicant that never registered, while the owner is no admin any more
C20_Witness ==
  /\ last.op = "deactivateIssuer"
  /\ last.err = "NotRegisteredIssuer"
  /\ last.sender # irOwner
  /\ irAdmins[last.sender]
  /\ ~irAdmins[irOwner]
  /\ \A a \in Applicants : getIssuerTier(a) = TierNONE

\* the operations behind onlyAdmin, per registry
IrAdminOnlyOps == {"manualVerifyIssuer", "deactivateIssuer", "reactivateIssuer"}
ZkAdminOnlyOps == {"registerCircuit", "deactivateCircuit", "reactivateCircuit"}

\* C21: whatever addAdmin and removeAdmin calls were made, an admin-only
\* operation called by the owner of its registry is never refused for want
\* of the admin role.
C21_OwnerAlwaysPrivileged ==
  [][/\ (last'.op \in IrAdminOnlyOps /\ last'.sender = irOwner) => last'.err # "NotAdmin"
     /\ (last'.op \in ZkAdminOnlyOps /\ last'.sender = zkOwner) => last'.err # "NotAdmin"]_vars

\* C22: an admin-only call is refused for want of the admin role exactly
\* when its caller is not in the registry's admin set as it stands when the
\* call runs, and a refused call changes nothing; the admin set of a registry
\* holds an identity exactly from a successful addAdmin of it up to the next
\* successful removeAdmin of it: no other operation changes an admin set.
C22_CurrentAdminSet ==
  [][/\ last'.op \in IrAdminOnlyOps
        => /\ (last'.err = "NotAdmin") <=> ~irAdmins[last'.sender]
           /\ last'.err = "NotAdmin" => UNCHANGED <<irVars, nftVars, zkVars>>
     /\ last'.op \in ZkAdminOnlyOps
        => /\ (last'.err = "NotAdmin") <=> ~zkAdmins[last'.sender]
           /\ last'.err = "NotAdmin" => UNCHANGED <<irVars, nftVars, zkVars>>
     /\ \A admin \in Addr :
          /\ (IrAddAdmin(last'.sender, admin) /\ last'.op = "ir.addAdmin" /\ last'.err = "")
             => irAdmins' = [irAdmins EXCEPT ![admin] = TRUE]
          /\ (IrRemoveAdmin(last'.sender, admin) /\ last'.op = "ir.removeAdmin"
              /\ last'.err = "")
             => irAdmins' = [irAdmins EXCEPT ![admin] = FALSE]
          /\ (ZkAddAdmin(last'.sender, admin) /\ last'.op = "zk.addAdmin" /\ last'.err = "")
             => zkAdmins' = [zkAdmins EXCEPT ![admin] = TRUE]
          /\ (ZkRemoveAdmin(last'.sender, admin) /\ last'.op = "zk.removeAdmin"
              /\ last'.err = "")
             => zkAdmins' = [zkAdmins EXCEPT ![admin] = FALSE]
     /\ ~(last'.op \in {"ir.addAdmin", "ir.removeAdmin"} /\ last'.err = "")
        => UNCHANGED irAdmins
     /\ ~(last'.op \in {"zk.addAdmin", "zk.removeAdmin"} /\ last'.err = "")
        => UNCHANGED zkAdmins]_vars
\* alice, once an admin (she verified bob by hand), is one no more and her
\* deactivation of bob was refused, while bob is an admin and the owner is not
C22_Witness ==
  /\ last.op = "deactivateIssuer"
  /\ last.sender = "alice"
  /\ last.err = "NotAdmin"
  /\ ~irAdmins["alice"]
  /\ ~irAdmins[irOwner]
  /\ irAdmins["bob"]
  /\ getIssuerTier("alice") = TierMANUAL
  /\ getIssuerTier("bob") = TierMANUAL

\* C23: a manualVerifyIssuer by a caller who is not an admin reverts and
\* changes nothing; by an admin it succeeds whatever the target's record was,
\* and leaves the target with tier MANUAL, isActive true and verificationData
\* "Manual verification", every other record, every claim and the admins
\* unchanged; and whenever a step changes the tier of an identity other than
\* its caller, the step is a manualVerifyIssuer and the new tier is MANUAL.
C23_ManualVerify ==
  [][/\ last'.op = "manualVerifyIssuer"
        => /\ ~irAdmins[last'.sender]
              => (last'.err = "NotAdmin" /\ UNCHANGED <<irVars, nftVars, zkVars>>)
           /\ irAdmins[last'.sender] => last'.err = ""
           /\ \A issuer \in Addr, issuerName \in Names :
                (ManualVerifyIssuer(last'.sender, issuer, issuerName) /\ last'.err = "")
                => /\ getIssuerTier(issuer)' = TierMANUAL
                   /\ getIssuerData(issuer)'.isActive
                   /\ getIssuerData(issuer)'.verificationData = ManualSentinel
                   /\ getIssuerData(issuer)'.name = issuerName
                   /\ \A other \in Addr \ {issuer} : issuers'[other] = issuers[other]
                   /\ UNCHANGED <<domainToIssuer, socialMediaToIssuer, irAdmins>>
     /\ \A a \in Addr :
          (a # last'.sender /\ getIssuerTier(a)' # getIssuerTier(a))
          => (last'.op = "manualVerifyIssuer" /\ getIssuerTier(a)' = TierMANUAL)]_vars
\* an admin verified by hand an issuer that held tier T1: its record is
\* MANUAL and its domain claim is still bound to it
C23_Witness ==
  /\ last.op = "manualVerifyIssuer"
  /\ last.err = ""
  /\ \E a \in Applicants :
       /\ a # last.sender
       /\ getIssuerTier(a) = TierMANUAL
       /\ \E d \in Domains : domainToIssuer[Hash(d)] = a

\* C24: whenever a step changes the tier of an identity, the change is NONE
\* to T1 by verifyIssuerT1, NONE to T2 by verifyIssuerT2, NONE to MANUAL by
\* manualVerifyIssuer or T2 to T1 by upgradeToT1.
C24_OnlyListedTransitions ==
  [][\A a \in Addr :
       getIssuerTier(a)' # getIssuerTier(a)
       => \/ /\ getIssuerTier(a) = TierNONE /\ getIssuerTier(a)' = TierT1
             /\ last'.op = "verifyIssuerT1"
          \/ /\ getIssuerTier(a) = TierNONE /\ getIssuerTier(a)' = TierT2
             /\ last'.op = "verifyIssuerT2"
          \/ /\ getIssuerTier(a) = TierNONE /\ getIssuerTier(a)' = TierMANUAL
             /\ last'.op = "manualVerifyIssuer"
          \/ /\ getIssuerTier(a) = TierT2 /\ getIssuerTier(a)' = TierT1
             /\ last'.op = "upgradeToT1"]_vars

\* the proofs that were created: ids are handed out from 1 up to the counter
ProofExists(proofId) == proofId \in 1..proofIdCounter

\* C25: verifyProof(id) is true exactly when the proof was created, is not
\* revoked and the clock is not past its expiresAt, so it is true at
\* expiresAt and false one instant later; a created proof that expires at its
\* creation time is valid at that instant only; a successful createProof with
\* validity period v stores the current time as createdAt and the current
\* time plus v as expiresAt, and the new proof is valid at once.
C25_VerifyProof ==
  /\ [](\A id \in ProofIdArgs :
          /\ verifyProof(id) <=> /\ ProofExists(id)
                                 /\ ~getProofData(id).isRevoked
                                 /\ now <= getProofData(id).expiresAt
          /\ ProofExists(id)
             => /\ getProofData(id).createdAt <= now
                /\ getProofData(id).expiresAt = getProofData(id).createdAt
                   => (verifyProof(id) <=> (~getProofData(id).isRevoked
                                            /\ now = getProofData(id).createdAt)))
  /\ [][(~Tick /\ last'.op = "createProof" /\ last'.err = "")
        => \A circuitId \in CircuitIdArgs, proofData \in ProofDatas,
              publicInputs \in PublicInputs, validityPeriod \in ValidityPeriods :
             CreateProof(last'.sender, circuitId, proofData, publicInputs, validityPeriod)
             => \E id \in ProofIdArgs :
                  /\ id = last'.ret
                  /\ getProofData(id)'.createdAt = now
                  /\ getProofData(id)'.expiresAt = now + validityPeriod
                  /\ verifyProof(id)']_vars
\* two proofs, neither revoked: one is read at its expiry instant, later than
\* its creation, and is valid; the other is read one instant past its expiry
\* and is not
C25_Witness ==
  \E id1, id2 \in ProofIdArgs :
    /\ ProofExists(id1) /\ ProofExists(id2)
    /\ ~getProofData(id1).isRevoked /\ ~getProofData(id2).isRevoked
    /\ getProofData(id1).createdAt < now
    /\ getProofData(id1).expiresAt = now
    /\ verifyProof(id1)
    /\ getProofData(id2).expiresAt + 1 = now
    /\ ~verifyProof(id2)

C27_RevokeProof ==
  [][last'.op = "revokeProof"
     => /\ \A id \in ProofIdArgs :
             RevokeProof(last'.sender, id)
             => /\ ~ProofExists(id) => last'.err = "ProofDoesNotExist"
                /\ (/\ ProofExists(id)
                    /\ getProofData(id).owner # last'.sender
                    /\ ~zkAdmins[last'.sender])
                   => last'.err = "NotAuthorizedToRevoke"
                /\ (/\ ProofExists(id)
                    /\ (getProofData(id).owner = last'.sender \/ zkAdmins[last'.sender]))
                   => /\ last'.err = ""
                      /\ proofs' = [proofs EXCEPT ![id].isRevoked = TRUE]
        /\ last'.err # "" => UNCHANGED proofs
        /\ UNCHANGED <<irVars, nftVars, zkAdmins, circuitIdCounter, proofIdCounter, circuits,
                       ownerProofs>>]_vars
\* bob, an admin who is not the owner of the registry and owns no proof,
\* revoked a proof of alice; the owner of the registry is no admin any more
C27_Witness ==
  /\ last.op = "revokeProof"
  /\ last.sender = "bob"
  /\ last.err = ""
  /\ zkAdmins["bob"]
  /\ ~zkAdmins[zkOwner]
  /\ getProofsByOwner("bob") = << >>
  /\ \E id \in ProofIdArgs :
       /\ ProofExists(id)
       /\ getProofData(id).owner = "alice"
       /\ getProofData(id).isRevoked

\* C28: a revokeProof of a proof that is revoked already, by its owner or by
\* an admin, succeeds and changes nothing in the proof registry (nor anywhere
\* else).
C28_RevokeIdempotent ==
  [][last'.op = "revokeProof"
     => \A id \in ProofIdArgs :
          (/\ RevokeProof(last'.sender, id)
           /\ ProofExists(id)
           /\ getProofData(id).isRevoked
           /\ (getProofData(id).owner = last'.sender \/ zkAdmins[last'.sender]))
          => /\ last'.err = ""
             /\ UNCHANGED <<now, irVars, nftVars, zkVars>>]_vars
\* every proof that can be created is revoked and the last call was a
\* successful revokeProof by alice, who owns one of them and is no admin
C28_Witness ==
  /\ last.op = "revokeProof"
  /\ last.sender = "alice"
  /\ last.err = ""
  /\ ~zkAdmins["alice"]
  /\ proofIdCounter = MaxProofs
  /\ \A id \in 1..MaxProofs : getProofData(id).isRevoked
  /\ \E id \in 1..MaxProofs : getProofData(id).owner = "alice"

\* C29: the record of an id that was never created is the zero record; a
\* record comes into being only by a successful createProof, under the id the
\* call returns, unrevoked; from then on it exists in every later state with
\* the same id, owner, circuitId, proofHash, createdAt and expiresAt, and
\* once isRevoked is true it stays true.
C29_ProofRecordsImmutable ==
  /\ [](\A id \in ProofIdArgs :
          /\ ~ProofExists(id) => getProofData(id) = ZeroProof
          /\ ProofExists(id) => getProofData(id).id = id)
  /\ [][\A id \in ProofIdArgs :
          /\ ProofExists(id)
             => /\ ProofExists(id)'
                /\ getProofData(id)'.id = getProofData(id).id
                /\ getProofData(id)'.owner = getProofData(id).owner
                /\ getProofData(id)'.circuitId = getProofData(id).circuitId
                /\ getProofData(id)'.proofHash = getProofData(id).proofHash
                /\ getProofData(id)'.createdAt = getProofData(id).createdAt
                /\ getProofData(id)'.expiresAt = getProofData(id).expiresAt
                /\ getProofData(id).isRevoked => getProofData(id)'.isRevoked
          /\ (~ProofExists(id) /\ ProofExists(id)')
             => /\ last'.op = "createProof"
                /\ last'.err = ""
                /\ last'.ret = id
                /\ getProofData(id)'.owner = last'.sender
                /\ ~getProofData(id)'.isRevoked]_vars
\* the first proof was revoked, has expired and its circuit is deactivated; a
\* second proof was created after the first expired; the last call was a
\* successful revokeProof
C29_Witness ==
  /\ proofIdCounter = 2
  /\ getProofData(1).isRevoked
  /\ getProofData(1).expiresAt < now
  /\ ~getCircuitData(getProofData(1).circuitId).isActive
  /\ getProofData(2).createdAt > getProofData(1).expiresAt
  /\ last.op = "revokeProof"
  /\ last.err = ""

\* the circuits that were registered: ids are handed out from 1 up to the
\* counter
CircuitRegistered(circuitId) == circuitId \in 1..circuitIdCounter
\* a createProof that failed creates no proof and allocates no id
NothingCreated ==
  /\ last'.ret = 0
  /\ UNCHANGED <<irVars, nftVars, zkVars>>
\* a createProof of the caller that succeeded: the id is one more than the
\* last one and the record names the caller as owner
CreatedAs(circuitId) ==
  /\ last'.err = ""
  /\ last'.ret = proofIdCounter + 1
  /\ proofIdCounter' = proofIdCounter + 1
  /\ \E id \in ProofIdArgs, caller \in Addr :
       /\ id = proofIdCounter + 1
       /\ caller = last'.sender
       /\ ~ProofExists(id)
       /\ getProofData(id)'.id = id
       /\ getProofData(id)'.owner = caller
       /\ getProofData(id)'.circuitId = circuitId
       /\ getProofsByOwner(caller)' = Append(getProofsByOwner(caller), id)
\* a successful deactivateCircuit leaves the circuit inactive, a successful
\* reactivateCircuit leaves it active
CircuitToggles ==
  (last'.op \in {"deactivateCircuit", "reactivateCircuit"} /\ last'.err = "" /\ ~Tick)
  => \A circuitId \in CircuitIdArgs :
       (\/ DeactivateCircuit(last'.sender, circuitId)
        \/ ReactivateCircuit(last'.sender, circuitId))
       => /\ CircuitRegistered(circuitId)
          /\ getCircuitData(circuitId)'.isActive = (last'.op = "reactivateCircuit")

\* C30 as stated: a createProof, whoever calls, reverts with the circuit not
\* active, creating no proof and allocating no id, when the circuit id was
\* never registered or the circuit is deactivated; when the circuit is
\* registered and active (after a reactivateCircuit as well) it succeeds,
\* records the caller as owner and returns the id one greater than the last.
C30_CreateProofGate ==
  [][/\ CircuitToggles
     /\ (last'.op = "createProof" /\ ~Tick)
        => \A circuitId \in CircuitIdArgs, proofData \in ProofDatas,
              publicInputs \in PublicInputs, validityPeriod \in ValidityPeriods :
             CreateProof(last'.sender, circuitId, proofData, publicInputs, validityPeriod)
             => /\ (~CircuitRegistered(circuitId) \/ ~getCircuitData(circuitId).isActive)
                   => (last'.err = "CircuitNotActive" /\ NothingCreated)
                /\ (CircuitRegistered(circuitId) /\ getCircuitData(circuitId).isActive)
                   => CreatedAs(circuitId)]_vars

\* C30, amended: as above, but on a registered and active circuit the call
\* succeeds only if the current time plus the validity period is
\* representable; otherwise it reverts with an arithmetic panic, creating no
\* proof and allocating no id.
C30_CreateProofGateNoOverflow ==
  [][/\ CircuitToggles
     /\ (last'.op = "createProof" /\ ~Tick)
        => \A circuitId \in CircuitIdArgs, proofData \in ProofDatas,
              publicInputs \in PublicInputs, validityPeriod \in ValidityPeriods :
             CreateProof(last'.sender, circuitId, proofData, publicInputs, validityPeriod)
             => /\ (~CircuitRegistered(circuitId) \/ ~getCircuitData(circuitId).isActive)
                   => (last'.err = "CircuitNotActive" /\ NothingCreated)
                /\ (/\ CircuitRegistered(circuitId) /\ getCircuitData(circuitId).isActive
                    /\ now + validityPeriod <= MaxUint)
                   => CreatedAs(circuitId)
                /\ (/\ CircuitRegistered(circuitId) /\ getCircuitData(circuitId).isActive
                    /\ now + validityPeriod > MaxUint)
                   => (last'.err = "Panic" /\ NothingCreated)]_vars
\* bob's createProof on the only circuit, which is deactivated, was refused
\* after alice had created the first proof on it
C30_Witness ==
  /\ last.op = "createProof"
  /\ last.sender = "bob"
  /\ last.err = "CircuitNotActive"
  /\ circuitIdCounter = 1
  /\ ~getCircuitData(1).isActive
  /\ proofIdCounter = 1
  /\ getProofData(1).owner = "alice"
  /\ getProofData(1).circuitId = 1
  /\ getProofsByOwner("bob") = << >>

\* C31: a deactivateCircuit or reactivateCircuit changes nothing but the
\* isActive flag of its circuit: proofs, counters, owner index and admins are
\* as before, every other circuit and every other field of the circuit are
\* as before, and verifyProof of every id returns what it returned before.
C31_DeactivationNotRetroactive ==
  [][(last'.op \in {"deactivateCircuit", "reactivateCircuit"} /\ ~Tick)
     => /\ UNCHANGED <<now, irVars, nftVars, zkAdmins, circuitIdCounter, proofIdCounter,
                       proofs, ownerProofs>>
        /\ \A id \in ProofIdArgs : verifyProof(id)' = verifyProof(id)
        /\ \A circuitId \in CircuitIdArgs :
             (\/ DeactivateCircuit(last'.sender, circuitId)
              \/ ReactivateCircuit(last'.sender, circuitId))
             => circuits' = [circuits EXCEPT
                               ![circuitId].isActive =
                                  IF last'.err = "" THEN last'.op = "reactivateCircuit"
                                  ELSE @]]_vars
\* the only circuit has just been deactivated; a proof created against it
\* before is still valid
C31_Witness ==
  /\ last.op = "deactivateCircuit"
  /\ last.err = ""
  /\ ~getCircuitData(1).isActive
  /\ \E id \in ProofIdArgs :
       /\ ProofExists(id)
       /\ getProofData(id).circuitId = 1
       /\ verifyProof(id)

\* C32: a registerCircuit, deactivateCircuit or reactivateCircuit by a caller
\* who is not in the admin set of the proof registry reverts; a
\* registerCircuit by an admin reverts for the null verifier and otherwise
\* stores, under the id one more than the counter (1 the first time), a
\* circuit with isActive true, leaving every other circuit alone; a
\* deactivateCircuit or reactivateCircuit by an admin reverts for an id that
\* was never registered and otherwise sets the flag; a reverted call changes
\* nothing, the counter included; the registered ids are 1 up to the counter.
C32_CircuitManagement ==
  /\ [](\A circuitId \in CircuitIdArgs :
          /\ CircuitRegistered(circuitId) => getCircuitData(circuitId).id = circuitId
          /\ ~CircuitRegistered(circuitId) => getCircuitData(circuitId) = ZeroCircuit)
  /\ [][/\ (last'.op \in ZkAdminOnlyOps /\ ~zkAdmins[last'.sender])
           => last'.err = "NotAdmin"
        /\ (last'.op \in ZkAdminOnlyOps /\ last'.err # "")
           => UNCHANGED <<now, irVars, nftVars, zkVars>>
        /\ (last'.op = "registerCircuit" /\ zkAdmins[last'.sender])
           => \A name \in CircuitNames, description \in Descriptions,
                 verifierContract \in VerifierContracts :
                RegisterCircuit(last'.sender, name, description, verifierContract)
                => /\ verifierContract = ZERO => last'.err = "InvalidVerifierContract"
                   /\ verifierContract # ZERO
                      => /\ last'.err = ""
                         /\ last'.ret = circuitIdCounter + 1
                         /\ circuitIdCounter' = circuitIdCounter + 1
                         /\ \E id \in CircuitIdArgs :
                              /\ id = circuitIdCounter + 1
                              /\ circuits' = [circuits EXCEPT ![id] =
                                   [id |-> id, name |-> name, description |-> description,
                                    verifierContract |-> verifierContract,
                                    isActive |-> TRUE]]
        /\ (last'.op \in {"deactivateCircuit", "reactivateCircuit"} /\ zkAdmins[last'.sender])
           => \A circuitId \in CircuitIdArgs :
                (\/ DeactivateCircuit(last'.sender, circuitId)
                 \/ ReactivateCircuit(last'.sender, circuitId))
                => /\ ~CircuitRegistered(circuitId) => last'.err = "CircuitDoesNotExist"
                   /\ CircuitRegistered(circuitId)
                      => /\ last'.err = ""
                         /\ UNCHANGED circuitIdCounter
                         /\ circuits' = [circuits EXCEPT ![circuitId].isActive =
                                           (last'.op = "reactivateCircuit")]]_vars
\* bob, an admin who is not the owner, registered the second circuit under id
\* 2 while the first is deactivated and the owner is no admin
C32_Witness ==
  /\ last.op = "registerCircuit"
  /\ last.sender = "bob"
  /\ last.err = ""
  /\ last.ret = 2
  /\ ~zkAdmins[zkOwner]
  /\ circuitIdCounter = 2
  /\ ~getCircuitData(1).isActive
  /\ getCircuitData(2).isActive

\* C34: a step that writes a certificate record is a successful mint whose
\* caller is, in the state the step starts from, a registered and active
\* issuer; the record names the caller as issuer and the caller's tier in
\* that same state as issuerLevel, which is not NONE; the step leaves the
\* issuer registry as it was; so no certificate has issuerLevel NONE.
C34_MintChecksAndWritesAtOnce ==
  /\ [](\A tokenId \in 1..MaxTokens :
          tokenId <= tokenIdCounter => certificates[tokenId].issuerLevel # TierNONE)
  /\ [][\A tokenId \in 1..MaxTokens :
          certificates'[tokenId] # certificates[tokenId]
          => /\ last'.op \in {"mintCertificate", "mint"}
             /\ last'.err = ""
             /\ last'.ret = tokenId
             /\ CallerVerified
             /\ certificates'[tokenId].issuer = last'.sender
             /\ certificates'[tokenId].issuerLevel = issuers[last'.sender].tier
             /\ certificates'[tokenId].issuerLevel # TierNONE
             /\ UNCHANGED irVars]_vars
\* an issuer minted as T2, was verified by hand and deactivated since, and
\* its next mint was refused
C34_Witness ==
  /\ last.op = "mintCertificate"
  /\ last.err = "NotVerifiedIssuer"
  /\ getIssuerTier(last.sender) = TierMANUAL
  /\ ~getIssuerData(last.sender).isActive
  /\ \E tokenId \in 1..MaxTokens :
       /\ tokenId <= tokenIdCounter
       /\ certificates[tokenId].issuer = last.sender
       /\ certificates[tokenId].issuerLevel = TierT2

C36_ReverificationKeepsClaims ==
  [][/\ (last'.op = "verifyIssuerT1" /\ last'.err = "")
        => \A issuerName \in Names, domain \in Domains, verificationData \in VData :
             VerifyIssuerT1(last'.sender, issuerName, domain, verificationData)
             => /\ issuers'[last'.sender] =
                     [issuerAddress |-> last'.sender, tier |-> TierT1, name |-> issuerName,
                      verificationData |-> verificationData, verifiedAt |-> now,
                      isActive |-> TRUE]
                /\ domainToIssuer' =
                     [domainToIssuer EXCEPT ![FoldASCII(domain)] = last'.sender]
                /\ UNCHANGED socialMediaToIssuer
     /\ (last'.op = "verifyIssuerT2" /\ last'.err = "")
        => \A issuerName \in Names, socialMediaUrl \in SocialUrls :
             VerifyIssuerT2(last'.sender, issuerName, socialMediaUrl)
             => /\ issuers'[last'.sender] =
                     [issuerAddress |-> last'.sender, tier |-> TierT2, name |-> issuerName,
                      verificationData |-> socialMediaUrl, verifiedAt |-> now,
                      isActive |-> TRUE]
                /\ socialMediaToIssuer' =
                     [socialMediaToIssuer EXCEPT ![FoldASCII(socialMediaUrl)] = last'.sender]
                /\ UNCHANGED domainToIssuer
     /\ \A h \in DOMAIN domainToIssuer :
          domainToIssuer[h] # ZERO => domainToIssuer'[h] = domainToIssuer[h]
     /\ \A h \in DOMAIN socialMediaToIssuer :
          (socialMediaToIssuer[h] # ZERO /\ socialMediaToIssuer'[h] # socialMediaToIssuer[h])
          => /\ last'.op = "upgradeToT1"
             /\ last'.err = ""
             /\ h = FoldASCII(issuers[last'.sender].verificationData)
             /\ socialMediaToIssuer'[h] = ZERO]_vars
\* alice verified as T2 with one URL, again with the other, then as T1 with
\* one domain and again with the other: all four claims are bound to her
C36_Witness ==
  /\ last.op = "verifyIssuerT1"
  /\ last.err = ""
  /\ last.sender = "alice"
  /\ \A domain \in Domains : domainToIssuer[FoldASCII(domain)] = "alice"
  /\ \A socialMediaUrl \in SocialUrls : socialMediaToIssuer[FoldASCII(socialMediaUrl)] = "alice"
  /\ Cardinality({FoldASCII(domain) : domain \in Domains}) > 1
  /\ Cardinality({FoldASCII(socialMediaUrl) : socialMediaUrl \in SocialUrls}) > 1

\* the domain, folded, is bound to some issuer
DomainBound(domain) == domainToIssuer[FoldASCII(domain)] # ZERO

\* C39: a domain hash that is bound to an issuer is bound to the same issuer
\* after every step; a verifyIssuerT1 with a domain that is bound, in
\* whatever letter case and to whomever, the caller included, reverts as
\* already registered, and an upgradeToT1 with such a domain reverts; both
\* change nothing.
C39_DomainClaimsPermanent ==
  [][/\ \A h \in DOMAIN domainToIssuer :
          domainToIssuer[h] # ZERO => domainToIssuer'[h] = domainToIssuer[h]
     /\ last'.op = "verifyIssuerT1"
        => \A issuerName \in Names, domain \in Domains, verificationData \in VData :
             (/\ DomainBound(domain)
              /\ VerifyIssuerT1(last'.sender, issuerName, domain, verificationData))
             => (last'.err = "DomainAlreadyRegistered" /\ UNCHANGED irVars)
     /\ last'.op = "upgradeToT1"
        => \A domain \in Domains, verificationData \in VData :
             (/\ DomainBound(domain)
              /\ UpgradeToT1(last'.sender, domain, verificationData))
             => (last'.err \in {"DomainAlreadyRegistered", "NotT2Issuer"}
                 /\ UNCHANGED irVars)]_vars
\* an issuer that upgraded to T1 and then verified as T2 again was refused
\* the upgrade with a domain: every bound domain is its own
C39_Witness ==
  /\ last.op = "upgradeToT1"
  /\ last.err = "DomainAlreadyRegistered"
  /\ getIssuerTier(last.sender) = TierT2
  /\ \E domain \in Domains : DomainBound(domain)
  /\ \A domain \in Domains : domainToIssuer[FoldASCII(domain)] \in {ZERO, last.sender}

\* C40: in every state every issuer of tier T2 is the one the social-claim
\* map names at the case-folded URL in its record; and a step that changes a
\* bound entry of the social-claim map is a successful upgradeToT1 of the
\* issuer the entry was bound to.
C40_T2OwnsItsSocialClaim ==
  /\ [](\A a \in Addr :
          getIssuerTier(a) = TierT2
          => socialMediaToIssuer[FoldASCII(getIssuerData(a).verificationData)] = a)
  /\ [][\A h \in DOMAIN socialMediaToIssuer, a \in Addr :
          (socialMediaToIssuer[h] = a /\ socialMediaToIssuer'[h] # a)
          => (last'.op = "upgradeToT1" /\ last'.err = "" /\ last'.sender = a)]_vars
\* alice upgraded and a URL is free, while bob, of tier T2, holds the URL in
\* his record
C40_Witness ==
  /\ last.op = "upgradeToT1"
  /\ last.err = ""
  /\ last.sender = "alice"
  /\ getIssuerTier("bob") = TierT2
  /\ socialMediaToIssuer[FoldASCII(getIssuerData("bob").verificationData)] = "bob"
  /\ \E socialMediaUrl \in SocialUrls : socialMediaToIssuer[FoldASCII(socialMediaUrl)] = ZERO


(***************************************************************************)
(* scripts/merkle-tree.js: the off-chain tree of the whitelist.            *)
(***************************************************************************)
\* the longest whitelist handed to generateMerkleTree
MaxList == 3
\* abi.encodePacked(address): the 20 bytes of the address, one item here
EncodePacked(a) == <<AddrCode(a)>>
\* defaultAbiCoder.encode(['address'], [a]): the address left-padded with
\* zero bytes to a 32-byte word, one zero item before the address here
AbiEncode(a) == <<0>> \o EncodePacked(a)
\* keccak256 of a byte string, collision-free: the packed address hashes to
\* the leaf value of the contract, and the padded word c to NodeBase plus
\* the Cantor pairing of (c, 0), a value no sorted pair hashes to
Keccak256(bytes) ==
  IF Len(bytes) = 1 THEN bytes[1]
  ELSE NodeBase + (bytes[2] * (bytes[2] + 1)) \div 2
\* the leaf of the script: keccak256(defaultAbiCoder.encode(['address'], [addr]))
ScriptLeaf(addr) == Keccak256(AbiEncode(addr))
\* createLeaf of the test suite: solidityPackedKeccak256(['address'], [address])
createLeaf(address) == Keccak256(EncodePacked(address))
\* one layer of MerkleTree up: neighbours are hashed as a sorted pair and an
\* odd last node is promoted unchanged
RECURSIVE NextLayer(_)
NextLayer(nodes) ==
  IF Len(nodes) <= 1 THEN nodes
  ELSE <<HashPair(nodes[1], nodes[2])>> \o NextLayer(SubSeq(nodes, 3, Len(nodes)))
\* tree.getHexRoot()
RECURSIVE TreeRoot(_)
TreeRoot(nodes) == IF Len(nodes) = 1 THEN nodes[1] ELSE TreeRoot(NextLayer(nodes))
\* tree.getHexProof of the node at position i: the sibling on every layer
\* that has one, bottom up
RECURSIVE LayerProof(_, _)
LayerProof(nodes, i) ==
  IF Len(nodes) <= 1 THEN << >>
  ELSE LET sibling == IF i % 2 = 1 THEN i + 1 ELSE i - 1
           here == IF sibling <= Len(nodes) THEN <<nodes[sibling]>> ELSE << >>
       IN here \o LayerProof(NextLayer(nodes), (i + 1) \div 2)
\* generateMerkleTree(addresses): the leaves in list order and the root
generateMerkleTree(addresses) ==
  LET leaves == [i \in 1..Len(addresses) |-> ScriptLeaf(addresses[i])]
  IN [leaves |-> leaves, root |-> TreeRoot(leaves)]
\* generateProof(tree, address): the proof of the first leaf equal to the
\* address's leaf, the empty proof when the tree has no such leaf
generateProof(tree, address) ==
  LET at == {i \in 1..Len(tree.leaves) : tree.leaves[i] = ScriptLeaf(address)}
  IN IF at = {} THEN << >>
     ELSE LayerProof(tree.leaves, CHOOSE i \in at : \A j \in at : i <= j)
\* verifyProof(root, proof, address) of the script
scriptVerifyProof(root, proof, address) ==
  MerkleVerify(proof, root, ScriptLeaf(address))

\* the whitelists: one to MaxList distinct addresses, in any order
AddressLists ==
  {list \in UNION {[1..n -> Addr] : n \in 1..MaxList} :
     \A i, j \in 1..Len(list) : list[i] = list[j] => i = j}
Listed(addresses) == {addresses[i] : i \in 1..Len(addresses)}
\* the owner commits the registry to the root of a tree of the script
ScriptSetRootStep ==
  \E addresses \in AddressLists :
    SetMerkleRoot(nftOwner, generateMerkleTree(addresses).root)
\* an identity mints to a listed recipient with the proof of the script
ScriptMintStep ==
  \E sender \in Addr, addresses \in AddressLists :
    \E recipient \in Listed(addresses) :
      MintCertificate(sender, recipient,
                      generateProof(generateMerkleTree(addresses), recipient))
NextScript == ScriptSetRootStep \/ ScriptMintStep \/ ManualVerifyStep
SpecScript == Init /\ [][NextScript]_vars

\* C38: for every address a of the list given to generateMerkleTree,
\* isEligible(a, generateProof(tree, a)) holds while the root of the registry
\* is the root of that tree, and the script's verifyProof of that proof under
\* that root is true for a and false for every address outside the list
C38_ScriptAgreesWithRegistry ==
  \A addresses \in AddressLists :
    LET tree == generateMerkleTree(addresses) IN
    \A a \in Listed(addresses) :
      /\ merkleRoot = tree.root => isEligible(a, generateProof(tree, a))
      /\ scriptVerifyProof(tree.root, generateProof(tree, a), a)
      /\ \A b \in AddrOrZero \ Listed(addresses) :
           ~scriptVerifyProof(tree.root, generateProof(tree, a), b)


\* the operations the event rule names, and the event it gives each of them
EventfulOps ==
  {"verifyIssuerT1", "verifyIssuerT2", "manualVerifyIssuer", "upgradeToT1",
   "deactivateIssuer", "reactivateIssuer", "ir.addAdmin", "ir.removeAdmin",
   "zk.addAdmin", "zk.removeAdmin", "mintCertificate", "mint", "setMerkleRoot",
   "setBaseURI", "registerCircuit", "createProof", "revokeProof"}
DomainEvent(op) ==
  CASE op \in {"verifyIssuerT1", "verifyIssuerT2", "manualVerifyIssuer"} -> "IssuerVerified"
    [] op = "upgradeToT1" -> "IssuerUpgraded"
    [] op \in {"deactivateIssuer", "reactivateIssuer"} -> "IssuerStatusChanged"
    [] op \in {"ir.addAdmin", "zk.addAdmin"} -> "AdminAdded"
    [] op \in {"ir.removeAdmin", "zk.removeAdmin"} -> "AdminRemoved"
    [] op \in {"mintCertificate", "mint"} -> "CertificateMinted"
    [] op = "setMerkleRoot" -> "MerkleRootUpdated"
    [] op = "setBaseURI" -> "BaseURIUpdated"
    [] op = "registerCircuit" -> "CircuitRegistered"
    [] op = "createProof" -> "ProofCreated"
    [] op = "revokeProof" -> "ProofRevoked"
\* the stores of the three registries
registryVars == <<irVars, nftVars, zkVars>>

\* C35: a call that succeeds has emitted the domain event of its operation
\* (IssuerVerified, IssuerUpgraded, IssuerStatusChanged, AdminAdded and
\* AdminRemoved in both registries with an admin set, CertificateMinted,
\* MerkleRootUpdated, BaseURIUpdated, CircuitRegistered, ProofCreated,
\* ProofRevoked), a call that fails has emitted nothing, and no step changes
\* the state of a registry without emitting an event
C35_EveryMutationEmitsItsEvent ==
  /\ [](/\ (last.err = "" /\ last.op \in EventfulOps) => DomainEvent(last.op) \in last.events
        /\ last.err # "" => last.events = {})
  /\ [][registryVars' # registryVars => last'.events # {}]_vars


====
